---- MODULE Spec2Model ----
(***************************************************************************)
(* State-machine model of the gameplay runtime of secret-rudolph-game:     *)
(* the ItemPool class and the RudolphGame scene of                         *)
(* src/game/scenes/RudolphGame.ts, with shuffleArray of src/_utils/utils.ts.*)
(* The Phaser framework is the environment: its clock fires pending timer  *)
(* events, its physics world delivers collision callbacks for sprites      *)
(* whose body is enabled, and the host calls startGame.                    *)
(***************************************************************************)
EXTENDS Integers, Sequences, FiniteSets, TLC

(***************************************************************************)
(* Bounds of the exploration.                                              *)
(***************************************************************************)
MaxOps == 4
MaxSelDraws == 4
MaxPoolOps == 5
\* Start commands and spawn ticks before a teardown.
MaxTeardownOps == 3
\* Renders of the host component.
MaxRenders == 4
\* Calls of the database boundary, and milliseconds that pass meanwhile.
MaxDbCalls == 3
MaxNow == 1

(***************************************************************************)
(* Program constants.                                                      *)
(***************************************************************************)
WIDTH == 365
HEIGHT == 500
SCORE_LIKED_ITEM == 10
SCORE_DISLIKED_ITEM == -5
PLAYER_VELOCITY == 400
PLAYER_RESIZE_Y_OFFSET == 50
PLAYER_START_Y_OFFSET == 80
POOL_SIZE == 20
\* generateUniqueHash(length = 10)
DefaultLength == 10

\* The texture of a sprite that createItem has made.
PLACEHOLDER == "placeholder"

\* JavaScript's undefined (a missing array element, an unset field) and NaN.
Undefined == "undefined"
NaN == -1

\* Configurations a host can pass to startGame (keys of the item catalog).
Configs == {[likes |-> <<"ring", "tree">>, dislikes |-> <<"beer">>],
            [likes |-> <<>>, dislikes |-> <<"beer">>],
            [likes |-> <<"ring", "tree">>, dislikes |-> <<>>]}
\* Key lists explored on the selectors alone.
SelLikeLists == {<<"ring">>, <<"ring", "tree">>, <<"ring", "tree", "bike">>}
SelDislikeLists == {<<"beer">>, <<"beer", "wine">>}
\* poolSize arguments of the ItemPool constructor explored on a lone pool.
PoolSizes == {0, 1, 2, POOL_SIZE}

VARIABLES
    likes, dislikes,                    \* the caller's arrays given to startGame
    shuffledLikedItems, shuffledDislikedItems,
    likedItemIndex, dislikedItemIndex,
    likedItemPool, dislikedItemPool,    \* [exists, size, pool, active]
    sprites,                            \* number of sprites constructed so far
    itemName,                           \* sprite -> data "itemName"
    texture,                            \* sprite -> texture key
    positionX,                          \* sprite -> x given to setPosition
    bodyEnabled,                        \* sprites whose physics body is enabled
    likedItemsGroup, dislikedItemsGroup,
    score, gameOver,
    clock,                              \* timer events added to the scene clock
    gameTimer, likedItemSpawnTimer, dislikedItemSpawnTimer,
    collectedLikedItems, collectedDislikedItems,
    emitted,                            \* events published on game.events
    registry,                           \* registry entry gameScore
    sceneStarted,                       \* scene requested by scene.start
    lastViewportWidth, lastViewportHeight,
    gameWidth,                          \* width given to scale.setGameSize
    resizes,                            \* history: calls of scale.setGameSize
    playerY, playerVelocityX,
    likedCaught, dislikedCaught,        \* history: item names of the collisions handled
    likedDraws, dislikedDraws,          \* history: keys handed out since startGame
    ops,                                \* history: start commands and spawn ticks
    poolOps,                            \* history: calls made on a lone pool
    gameOverSeen,                       \* history: the scene as a game-over subscriber sees it
    arrays, shuffledRef,                \* shuffleArray: the arrays by reference, the reference returned
    min, max, randomValue, randomInt,   \* generateSecureRandomInt: arguments, raw value, value returned
    intDraws,                           \* history: iterations of its do-while loop
    length, result, byteIndex,          \* generateUniqueHash: argument, string built, loop index i
    batches,                            \* history: calls of crypto.getRandomValues
    sceneStatus,                        \* scene.sys.settings.status of the RudolphGame scene
    mounted,                            \* PhaserGame component: mounted
    gameCurrent,                        \* game.current: 0 is null, else the Phaser.Game created
    props,                              \* props of the last render
    deps,                               \* dependency array of the last run of the subscription effect
    handlers,                           \* handlers registered on EventBus and on game.events
    renders,                            \* history: renders of the component
    games,                              \* Firestore: documents of collection games
    results,                            \* Firestore: documents of games/<code>/results
    now,                                \* Timestamp.now().toMillis()
    inflight,                           \* setDoc writes of addGameResult not yet committed
    dbReads, dbWrites,                  \* history: getDoc / getDocs and setDoc calls
    dbCalls,                            \* history: number of boundary calls made
    dbCall,                             \* the last boundary call that returned or threw
    added,                              \* history: game codes of the addGameResult calls resolved
    currentStep,                        \* GameCreateSteps: step of the wizard
    selectedLikes, selectedDislikes,    \* GameCreateSteps: item keys selected
    nickname, errorMessage,             \* GameCreateSteps: name field, error shown
    localStorage,                       \* window.localStorage: entries by key
    newGameId, createdBy                \* NewGame: gameId, createdBy

vars == <<likes, dislikes, shuffledLikedItems, shuffledDislikedItems,
          likedItemIndex, dislikedItemIndex, likedItemPool, dislikedItemPool,
          sprites, itemName, texture, positionX, bodyEnabled, likedItemsGroup,
          dislikedItemsGroup, score, gameOver, clock, gameTimer,
          likedItemSpawnTimer, dislikedItemSpawnTimer, collectedLikedItems,
          collectedDislikedItems, emitted, registry, sceneStarted, lastViewportWidth,
          lastViewportHeight, gameWidth, resizes, playerY, playerVelocityX,
          likedCaught,
          dislikedCaught, likedDraws, dislikedDraws, ops, poolOps,
          gameOverSeen, arrays, shuffledRef, min, max, randomValue, randomInt,
          intDraws, length, result, byteIndex, batches, sceneStatus, mounted,
          gameCurrent, props, deps, handlers, renders, games, results, now,
          inflight, dbReads, dbWrites, dbCalls, dbCall, added, currentStep,
          selectedLikes, selectedDislikes, nickname, errorMessage, localStorage,
          newGameId, createdBy>>

selectorVars == <<shuffledLikedItems, shuffledDislikedItems, likedItemIndex,
                  dislikedItemIndex, likedDraws, dislikedDraws>>
timerVars == <<clock, gameTimer, likedItemSpawnTimer, dislikedItemSpawnTimer>>
sessionVars == <<score, gameOver, collectedLikedItems, collectedDislikedItems,
                 emitted, registry, sceneStarted, likedCaught, dislikedCaught,
                 gameOverSeen>>
frameVars == <<lastViewportWidth, lastViewportHeight, gameWidth, resizes,
               playerY, playerVelocityX>>
shuffleVars == <<arrays, shuffledRef>>
secureIntVars == <<min, max, randomValue, randomInt, intDraws>>
hashVars == <<length, result, byteIndex, batches>>
utilVars == <<shuffleVars, secureIntVars, hashVars>>
hostVars == <<mounted, gameCurrent, props, deps, handlers, renders>>
dbVars == <<games, results, now, inflight, dbReads, dbWrites, dbCalls, dbCall,
           added>>
wizardVars == <<currentStep, selectedLikes, selectedDislikes, nickname,
                errorMessage, localStorage, newGameId, createdBy>>
outerVars == <<sceneStatus, hostVars, dbVars, wizardVars>>

(***************************************************************************)
(* Sequence helpers (Array.prototype methods used by the code).            *)
(***************************************************************************)
Range(s) == {s[i] : i \in 1..Len(s)}

\* Array.prototype.indexOf, 0-based, -1 when absent.
IndexOf(s, e) ==
    IF e \in Range(s)
    THEN (CHOOSE i \in 1..Len(s) : s[i] = e /\ \A k \in 1..(i - 1) : s[k] # e) - 1
    ELSE -1

\* Array.prototype.splice(index, 1) with a 0-based index.
Splice1(s, index) ==
    [k \in 1..(Len(s) - 1) |-> IF k <= index THEN s[k] ELSE s[k + 1]]

\* Occurrences of e in s.
Count(s, e) == Cardinality({i \in 1..Len(s) : s[i] = e})

\* Array.prototype.push in place of Set.prototype.add
SetAddPush(s, e) == Append(s, e)

\* Set.prototype.add on an insertion-ordered Set.
SetAdd(s, e) == IF e \in Range(s) THEN s ELSE Append(s, e)

(***************************************************************************)
(* shuffleArray (Fisher-Yates).  rnd[i] is the value of                    *)
(* Math.floor(Math.random() * (i + 1)) drawn at loop index i.              *)
(***************************************************************************)
RandomDraws(n) ==
    {f \in [1..(n - 1) -> 0..(n - 1)] : \A i \in 1..(n - 1) : f[i] <= i}

SwapAt(shuffled, i, j) ==
    IF shuffled[i + 1] # Undefined /\ shuffled[j + 1] # Undefined
    THEN [shuffled EXCEPT ![i + 1] = shuffled[j + 1], ![j + 1] = shuffled[i + 1]]
    ELSE shuffled

RECURSIVE FisherYates(_, _, _)
FisherYates(shuffled, i, rnd) ==
    IF i > 0
    THEN FisherYates(SwapAt(shuffled, i, rnd[i]), i - 1, rnd)
    ELSE shuffled

shuffleArray(array, rnd) == FisherYates(array, Len(array) - 1, rnd)

ShuffleResults(array) ==
    {shuffleArray(array, rnd) : rnd \in RandomDraws(Len(array))}

(***************************************************************************)
(* ItemPool.  A pool is a record: pool (free list) and active are arrays   *)
(* of sprites; exists is FALSE for the scene field before startGame.       *)
(***************************************************************************)
NoPool == [exists |-> FALSE, size |-> 0, pool |-> <<>>, active |-> <<>>]

\* constructor: poolSize sprites created by createItem, pushed on the pool.
NewItemPool(created, poolSize) ==
    [exists |-> TRUE, size |-> poolSize,
     pool |-> [i \in 1..poolSize |-> created + i], active |-> <<>>]

\* acquire: the sprite handed out (pool.pop(), or createItem when empty).
AcquiredItem(p, created) ==
    IF Len(p.pool) > 0 THEN p.pool[Len(p.pool)] ELSE created + 1

\* acquire that pops a sprite and forgets to push it on the active list
AcquirePoolNoPush(p, created) ==
    [p EXCEPT !.pool = IF Len(p.pool) > 0 THEN SubSeq(p.pool, 1, Len(p.pool) - 1)
                       ELSE p.pool]

\* acquire: the pool afterwards.
AcquirePool(p, created) ==
    [p EXCEPT !.pool = IF Len(p.pool) > 0 THEN SubSeq(p.pool, 1, Len(p.pool) - 1)
                       ELSE p.pool,
              !.active = Append(p.active, AcquiredItem(p, created))]

\* an acquire that constructs a sprite on every call
AcquireCreatedAlways(p, created) == created + 1

\* acquire: sprites constructed afterwards.
AcquireCreated(p, created) == IF Len(p.pool) > 0 THEN created ELSE created + 1

\* release without the index > -1 guard: the sprite is pushed on the free list
\* even when it is not active
ReleasePoolUnguarded(p, item) ==
    LET index == IndexOf(p.active, item) IN
    [p EXCEPT !.active = IF index > -1 THEN Splice1(p.active, index) ELSE p.active,
              !.pool = Append(p.pool, item)]

\* release that pushes the sprite on the free list and leaves it in the active list
ReleasePoolNoSplice(p, item) ==
    LET index == IndexOf(p.active, item) IN
    IF index > -1 THEN [p EXCEPT !.pool = Append(p.pool, item)] ELSE p

\* release without the index > -1 guard: splice(-1, 1) removes the last active
\* sprite and the released sprite is pushed on the free list
ReleasePoolSpliceLast(p, item) ==
    LET index == IndexOf(p.active, item) IN
    [p EXCEPT !.active = IF index > -1 THEN Splice1(p.active, index)
                         ELSE SubSeq(p.active, 1, Len(p.active) - 1),
              !.pool = Append(p.pool, item)]

\* release: the pool afterwards.
ReleasePool(p, item) ==
    LET index == IndexOf(p.active, item) IN
    IF index > -1
    THEN [p EXCEPT !.active = Splice1(p.active, index),
                   !.pool = Append(p.pool, item)]
    ELSE p

\* a release that pushes the sprite on the free list of the pool it is given
\* to, whether or not that pool holds it as active
OptReleaseUnguarded(p, item) ==
    IF p.exists THEN ReleasePoolUnguarded(p, item) ELSE p

\* this.likedItemPool?.release(sprite): nothing when the pool is undefined.
OptRelease(p, item) == IF p.exists THEN ReleasePool(p, item) ELSE p

\* release disables the body even when the sprite is not in the active list.
OptReleaseBody(p, item, enabled) == IF p.exists THEN enabled \ {item} ELSE enabled

(***************************************************************************)
(* Cycling selector: getNextLikedItem / getNextDislikedItem.               *)
(***************************************************************************)
\* a read of the first element whatever the cursor
NextItemFirst(shuffled, index) ==
    IF Len(shuffled) > 0 THEN shuffled[1] ELSE Undefined

\* the element read at the cursor
NextItem(shuffled, index) ==
    IF index >= 0 /\ index < Len(shuffled) THEN shuffled[index + 1] ELSE Undefined

\* a cursor that is never advanced
NextIndexStuck(shuffled, index) == index

\* a cursor advanced without the modulo
NextIndexNoWrap(shuffled, index) ==
    IF index = NaN \/ Len(shuffled) = 0 THEN NaN ELSE index + 1

\* (index + 1) % length
NextIndex(shuffled, index) ==
    IF index = NaN \/ Len(shuffled) = 0 THEN NaN ELSE (index + 1) % Len(shuffled)

\* a reshuffle on every draw
NextShuffledAlways(shuffled, index) == ShuffleResults(shuffled)

\* the arrays the selector can hold after the draw
NextShuffled(shuffled, index) ==
    IF NextIndex(shuffled, index) = 0 THEN ShuffleResults(shuffled) ELSE {shuffled}

(***************************************************************************)
(* Initial state: the scene after create(), before startGame.              *)
(***************************************************************************)
InitFields ==
    /\ likes = <<>> /\ dislikes = <<>>
    /\ shuffledLikedItems = <<>> /\ shuffledDislikedItems = <<>>
    /\ likedItemIndex = 0 /\ dislikedItemIndex = 0
    /\ dislikedItemPool = NoPool
    /\ bodyEnabled = {}
    /\ likedItemsGroup = {} /\ dislikedItemsGroup = {}
    /\ score = 0 /\ gameOver = FALSE
    /\ clock = <<>>
    /\ gameTimer = 0 /\ likedItemSpawnTimer = 0 /\ dislikedItemSpawnTimer = 0
    /\ collectedLikedItems = <<>> /\ collectedDislikedItems = <<>>
    /\ emitted = <<>>
    /\ registry = <<>>
    /\ sceneStarted = "RudolphGame"
    /\ lastViewportWidth = 0 /\ lastViewportHeight = 0
    /\ gameWidth = WIDTH
    /\ resizes = 0
    /\ playerY = HEIGHT - PLAYER_START_Y_OFFSET
    /\ playerVelocityX = 0
    /\ likedCaught = <<>> /\ dislikedCaught = <<>>
    /\ likedDraws = <<>> /\ dislikedDraws = <<>>
    /\ ops = 0
    /\ poolOps = 0
    /\ gameOverSeen = <<>>

\* No call of shuffleArray, generateSecureRandomInt or generateUniqueHash.
InitShuffleIdle == arrays = <<>> /\ shuffledRef = 0

InitSecureIntIdle ==
    min = 0 /\ max = 0 /\ randomValue = 0 /\ randomInt = <<>> /\ intDraws = 0

InitHashIdle == length = 0 /\ result = <<>> /\ byteIndex = 0 /\ batches = 0

\* The scene is running; no component mounted; an empty database.
InitHostIdle ==
    /\ mounted = FALSE /\ gameCurrent = 0
    /\ props = <<>> /\ deps = <<>> /\ handlers = <<>> /\ renders = 0

InitDbIdle ==
    /\ games = {} /\ results = {} /\ now = 0 /\ inflight = <<>>
    /\ dbReads = 0 /\ dbWrites = 0 /\ dbCalls = 0
    /\ dbCall = [fn |-> "", gameCode |-> <<>>, outcome |-> "", value |-> <<>>]
    /\ added = <<>>

\* The create page as first rendered: useState(1), useState([]), useState("").
InitWizardIdle ==
    /\ currentStep = 1
    /\ selectedLikes = <<>> /\ selectedDislikes = <<>>
    /\ nickname = <<>> /\ errorMessage = ""
    /\ localStorage = {}
    /\ newGameId = <<>> /\ createdBy = <<>>

InitOuterIdle ==
    sceneStatus = "RUNNING" /\ InitHostIdle /\ InitDbIdle /\ InitWizardIdle

InitRest ==
    /\ InitFields /\ InitShuffleIdle /\ InitSecureIntIdle /\ InitHashIdle
    /\ InitOuterIdle

Init ==
    /\ likedItemPool = NoPool
    /\ sprites = 0
    /\ itemName = <<>> /\ texture = <<>> /\ positionX = <<>>
    /\ InitRest

(***************************************************************************)
(* Scene clock: time.addEvent appends a timer event; destroy() and the     *)
(* firing of a non-looping event end its pendency.                         *)
(***************************************************************************)
TimerEvent(cb, loop) == [callback |-> cb, loop |-> loop, pending |-> TRUE]

\* TimerEvent.destroy() through an optional handle (0 is undefined)
DestroyTimer(c, handle) ==
    IF handle = 0 THEN c ELSE [c EXCEPT ![handle].pending = FALSE]

\* the clock after event i has dispatched its callback
Dispatched(c, i) == IF c[i].loop THEN c ELSE [c EXCEPT ![i].pending = FALSE]

Pending(cb) == {i \in 1..Len(clock) : clock[i].pending /\ clock[i].callback = cb}

(***************************************************************************)
(* startGame({ likes, dislikes })                                          *)
(***************************************************************************)
startGame(l, d) ==
    /\ likes' = l /\ dislikes' = d
    /\ shuffledLikedItems' \in ShuffleResults(l)
    /\ shuffledDislikedItems' \in ShuffleResults(d)
    /\ likedItemIndex' = 0 /\ dislikedItemIndex' = 0
    /\ likedItemPool' = NewItemPool(sprites, POOL_SIZE)
    /\ dislikedItemPool' = NewItemPool(sprites + POOL_SIZE, POOL_SIZE)
    /\ sprites' = sprites + 2 * POOL_SIZE
    /\ itemName' = itemName \o [i \in 1..(2 * POOL_SIZE) |-> Undefined]
    /\ texture' = texture \o [i \in 1..(2 * POOL_SIZE) |-> PLACEHOLDER]
    /\ positionX' = positionX \o [i \in 1..(2 * POOL_SIZE) |-> 0]
    /\ clock' = clock \o <<TimerEvent("spawnLikedItem", TRUE),
                           TimerEvent("spawnDislikedItem", TRUE),
                           TimerEvent("handleGameOver", FALSE)>>
    /\ likedItemSpawnTimer' = Len(clock) + 1
    /\ dislikedItemSpawnTimer' = Len(clock) + 2
    /\ gameTimer' = Len(clock) + 3
    /\ likedDraws' = <<>> /\ dislikedDraws' = <<>>
    /\ ops' = ops + 1
    /\ UNCHANGED <<bodyEnabled, likedItemsGroup, dislikedItemsGroup, sessionVars,
                   frameVars, poolOps, utilVars,
                   outerVars>>

\* The host's start command.
StartGame ==
    /\ ops < MaxOps
    /\ \E config \in Configs : startGame(config.likes, config.dislikes)

(***************************************************************************)
(* spawnLikedItem / spawnDislikedItem, run by the looping spawn timers.    *)
(***************************************************************************)
\* Math.random() is random / RandomDen, a multiple of 1/1000 in [0, 1).
RandomDen == 1000

\* Values of Math.random() explored: the least, the middle and the greatest.
Randoms == {0, 500, RandomDen - 1}

\* The x coordinate of a sprite decides nothing else in the scene: where the
\* claims checked do not concern it, the middle value alone is drawn.
SceneRandoms == {RandomDen \div 2}

\* Math.floor(Math.random() * (max - min + 1)) + min
generateRandomInteger(lo, hi, random) ==
    ((random * (hi - lo + 1)) \div RandomDen) + lo

\* an acquire that leaves the texture of the sprite as it was
SetTextureKeep(textures, created, sprite, key) ==
    [k \in 1..created |-> IF k <= Len(textures) THEN textures[k] ELSE PLACEHOLDER]

\* item.setTexture(texture) in acquire
SetTexture(textures, created, sprite, key) ==
    [k \in 1..created |-> IF k = sprite THEN key
                          ELSE IF k <= Len(textures) THEN textures[k]
                          ELSE PLACEHOLDER]

\* item.setPosition(x, y) in acquire
SetPosition(positions, created, sprite, x) ==
    [k \in 1..created |-> IF k = sprite THEN x
                          ELSE IF k <= Len(positions) THEN positions[k] ELSE 0]

\* item.setData("itemName", name) in acquire
SetItemName(names, created, sprite, name) ==
    [k \in 1..created |-> IF k = sprite THEN name
                          ELSE IF k <= Len(names) THEN names[k] ELSE Undefined]

spawnLikedItem(random) ==
    /\ LET x == generateRandomInteger(10, WIDTH - 10, random)
           itemKey == NextItem(shuffledLikedItems, likedItemIndex)
           sprite == AcquiredItem(likedItemPool, sprites)
       IN  /\ likedItemIndex' = NextIndex(shuffledLikedItems, likedItemIndex)
           /\ shuffledLikedItems' \in NextShuffled(shuffledLikedItems, likedItemIndex)
           /\ likedDraws' = Append(likedDraws, itemKey)
           /\ IF likedItemPool.exists
              THEN /\ likedItemPool' = AcquirePool(likedItemPool, sprites)
                   /\ sprites' = AcquireCreated(likedItemPool, sprites)
                   /\ itemName' = SetItemName(itemName, sprites', sprite, itemKey)
                   /\ texture' = SetTexture(texture, sprites', sprite, itemKey)
                   /\ positionX' = SetPosition(positionX, sprites', sprite, x)
                   /\ bodyEnabled' = bodyEnabled \cup {sprite}
                   /\ likedItemsGroup' = likedItemsGroup \cup {sprite}
              ELSE UNCHANGED <<likedItemPool, sprites, itemName, texture,
                               positionX, bodyEnabled, likedItemsGroup>>
    /\ ops' = ops + 1
    /\ UNCHANGED <<likes, dislikes, shuffledDislikedItems, dislikedItemIndex,
                   dislikedDraws, dislikedItemPool, dislikedItemsGroup,
                   sessionVars, frameVars, poolOps, utilVars,
                   outerVars>>

spawnDislikedItem(random) ==
    /\ LET x == generateRandomInteger(10, WIDTH - 10, random)
           itemKey == NextItem(shuffledDislikedItems, dislikedItemIndex)
           sprite == AcquiredItem(dislikedItemPool, sprites)
       IN  /\ dislikedItemIndex' = NextIndex(shuffledDislikedItems, dislikedItemIndex)
           /\ shuffledDislikedItems' \in
                  NextShuffled(shuffledDislikedItems, dislikedItemIndex)
           /\ dislikedDraws' = Append(dislikedDraws, itemKey)
           /\ IF dislikedItemPool.exists
              THEN /\ dislikedItemPool' = AcquirePool(dislikedItemPool, sprites)
                   /\ sprites' = AcquireCreated(dislikedItemPool, sprites)
                   /\ itemName' = SetItemName(itemName, sprites', sprite, itemKey)
                   /\ texture' = SetTexture(texture, sprites', sprite, itemKey)
                   /\ positionX' = SetPosition(positionX, sprites', sprite, x)
                   /\ bodyEnabled' = bodyEnabled \cup {sprite}
                   /\ dislikedItemsGroup' = dislikedItemsGroup \cup {sprite}
              ELSE UNCHANGED <<dislikedItemPool, sprites, itemName, texture,
                               positionX, bodyEnabled, dislikedItemsGroup>>
    /\ ops' = ops + 1
    /\ UNCHANGED <<likes, dislikes, shuffledLikedItems, likedItemIndex,
                   likedDraws, likedItemPool, likedItemsGroup, sessionVars,
                   frameVars, poolOps, utilVars,
                   outerVars>>

\* The clock dispatches a pending spawn timer event.
LikedSpawnTimerFires ==
    /\ ops < MaxOps
    /\ \E i \in Pending("spawnLikedItem"), random \in SceneRandoms :
        /\ spawnLikedItem(random)
        /\ clock' = Dispatched(clock, i)
        /\ UNCHANGED <<gameTimer, likedItemSpawnTimer, dislikedItemSpawnTimer>>

DislikedSpawnTimerFires ==
    /\ ops < MaxOps
    /\ \E i \in Pending("spawnDislikedItem"), random \in SceneRandoms :
        /\ spawnDislikedItem(random)
        /\ clock' = Dispatched(clock, i)
        /\ UNCHANGED <<gameTimer, likedItemSpawnTimer, dislikedItemSpawnTimer>>

(***************************************************************************)
(* Collision handlers.                                                     *)
(***************************************************************************)
\* the score assigned instead of accumulated
updateScoreAssign(points) == score' = points

updateScore(points) == score' = score + points

collectLikedItem(sprite) ==
    /\ likedItemPool' = OptRelease(likedItemPool, sprite)
    /\ bodyEnabled' = OptReleaseBody(likedItemPool, sprite, bodyEnabled)
    /\ updateScore(SCORE_LIKED_ITEM)
    /\ collectedLikedItems' = SetAdd(collectedLikedItems, itemName[sprite])
    /\ emitted' = Append(emitted, [name |-> "update-itemList",
                                   payload |-> collectedLikedItems'])
    /\ likedCaught' = Append(likedCaught, itemName[sprite])
    /\ UNCHANGED <<likes, dislikes, selectorVars, timerVars, dislikedItemPool,
                   sprites, itemName, texture,
                   positionX, likedItemsGroup, dislikedItemsGroup,
                   gameOver, collectedDislikedItems, registry, sceneStarted,
                   gameOverSeen, dislikedCaught, frameVars, ops, poolOps, utilVars,
                   outerVars>>

hitDislikedItem(sprite) ==
    /\ dislikedItemPool' = OptRelease(dislikedItemPool, sprite)
    /\ bodyEnabled' = OptReleaseBody(dislikedItemPool, sprite, bodyEnabled)
    /\ updateScore(SCORE_DISLIKED_ITEM)
    /\ collectedDislikedItems' = SetAdd(collectedDislikedItems, itemName[sprite])
    /\ emitted' = Append(emitted, [name |-> "update-dislikes",
                                   payload |-> collectedDislikedItems'])
    /\ dislikedCaught' = Append(dislikedCaught, itemName[sprite])
    /\ UNCHANGED <<likes, dislikes, selectorVars, timerVars, likedItemPool,
                   sprites, itemName, texture,
                   positionX, likedItemsGroup, dislikedItemsGroup,
                   gameOver, collectedLikedItems, registry, sceneStarted,
                   gameOverSeen, likedCaught, frameVars, ops, poolOps, utilVars,
                   outerVars>>

itemHitsPlatform(sprite) ==
    /\ IF sprite \in likedItemsGroup
       THEN /\ likedItemPool' = OptRelease(likedItemPool, sprite)
            /\ bodyEnabled' = OptReleaseBody(likedItemPool, sprite, bodyEnabled)
            /\ UNCHANGED dislikedItemPool
       ELSE IF sprite \in dislikedItemsGroup
       THEN /\ dislikedItemPool' = OptRelease(dislikedItemPool, sprite)
            /\ bodyEnabled' = OptReleaseBody(dislikedItemPool, sprite, bodyEnabled)
            /\ UNCHANGED likedItemPool
       ELSE UNCHANGED <<likedItemPool, dislikedItemPool, bodyEnabled>>
    /\ UNCHANGED <<likes, dislikes, selectorVars, timerVars, sprites, itemName, texture,
                   positionX,
                   likedItemsGroup, dislikedItemsGroup, sessionVars, frameVars,
                   ops, poolOps, utilVars,
                   outerVars>>

\* The physics world calls a collision handler for a member of the handler's
\* group whose body is enabled.
PlayerOverlapsLiked ==
    \E sprite \in likedItemsGroup \cap bodyEnabled : collectLikedItem(sprite)

PlayerHitsDisliked ==
    \E sprite \in dislikedItemsGroup \cap bodyEnabled : hitDislikedItem(sprite)

ItemReachesPlatform ==
    \E sprite \in (likedItemsGroup \cup dislikedItemsGroup) \cap bodyEnabled :
        itemHitsPlatform(sprite)

(***************************************************************************)
(* handleGameOver, the callback of the countdown timer.                    *)
(***************************************************************************)
\* The timer events held in the three timer fields that are pending in c.
HeldPending(c) ==
    {h \in {gameTimer, likedItemSpawnTimer, dislikedItemSpawnTimer} :
        h # 0 /\ c[h].pending}

\* a game-over event published as the first statement of handleGameOver
SeenAtEntry(c, flag, reg, scene) ==
    [timers |-> HeldPending(clock), gameOver |-> gameOver, registry |-> registry,
     sceneStarted |-> sceneStarted]

\* The scene as a listener sees it during emit("game-over"): the statements
\* before the emit have run, changeScene() has not.
SeenAtEmit(c, flag, reg, scene) ==
    [timers |-> HeldPending(c), gameOver |-> flag, registry |-> reg,
     sceneStarted |-> scene]

handleGameOver(i) ==
    /\ clock' = DestroyTimer(DestroyTimer(DestroyTimer(Dispatched(clock, i),
                    gameTimer), likedItemSpawnTimer), dislikedItemSpawnTimer)
    /\ gameOver' = TRUE
    /\ registry' = <<score>>
    /\ emitted' = Append(emitted, [name |-> "game-over",
                                   payload |-> [score |-> score]])
    /\ gameOverSeen' = Append(gameOverSeen,
                              SeenAtEmit(clock', gameOver', registry', sceneStarted))
    /\ sceneStarted' = "GameOver"
    /\ UNCHANGED <<likes, dislikes, selectorVars, likedItemPool, dislikedItemPool,
                   sprites, itemName, texture,
                   positionX, bodyEnabled, likedItemsGroup,
                   dislikedItemsGroup, score, gameTimer, likedItemSpawnTimer,
                   dislikedItemSpawnTimer, collectedLikedItems,
                   collectedDislikedItems, likedCaught, dislikedCaught,
                   frameVars, ops, poolOps, utilVars,
                   outerVars>>

\* The clock dispatches a pending countdown timer event.
GameTimerFires == \E i \in Pending("handleGameOver") : handleGameOver(i)

\* an update() that ends the game itself once the countdown is armed
updateEndsGame(width, height, leftDown, rightDown, pointerDown, pointerX) ==
    /\ gameOver' = (gameOver \/ gameTimer # 0)
    /\ UNCHANGED <<likes, dislikes, selectorVars, timerVars, likedItemPool,
                   dislikedItemPool, sprites, itemName, texture,
                   positionX, bodyEnabled,
                   likedItemsGroup, dislikedItemsGroup, score,
                   collectedLikedItems, collectedDislikedItems, emitted, registry,
                   sceneStarted, gameOverSeen, likedCaught, dislikedCaught,
                   frameVars, ops, poolOps, utilVars,
                   outerVars>>

(***************************************************************************)
(* update(), the per-frame callback.  width, height: scale.getViewPort();  *)
(* leftDown, rightDown: the arrow keys; pointerDown, pointerX: the pointer.*)
(***************************************************************************)
\* a comparison that finds the viewport changed on every frame
ViewportChangedAlways(width, height) == TRUE

\* width !== this.lastViewportWidth || height !== this.lastViewportHeight
ViewportChanged(width, height) ==
    width # lastViewportWidth \/ height # lastViewportHeight

update(width, height, leftDown, rightDown, pointerDown, pointerX) ==
    /\ IF gameOver
       THEN UNCHANGED frameVars
       ELSE /\ IF ViewportChanged(width, height)
               THEN /\ IF width < WIDTH
                       THEN /\ gameWidth' = width
                            /\ playerY' = height - PLAYER_RESIZE_Y_OFFSET
                            /\ resizes' = resizes + 1
                       ELSE UNCHANGED <<gameWidth, playerY, resizes>>
                    /\ lastViewportWidth' = width
                    /\ lastViewportHeight' = height
               ELSE UNCHANGED <<lastViewportWidth, lastViewportHeight, gameWidth,
                                playerY, resizes>>
            /\ IF gameTimer = 0
               THEN UNCHANGED playerVelocityX
               ELSE LET isMovingLeft ==
                            leftDown \/ (pointerDown /\ 2 * pointerX < WIDTH)
                        isMovingRight ==
                            rightDown \/ (pointerDown /\ 2 * pointerX >= WIDTH)
                    IN  playerVelocityX' =
                            IF isMovingLeft THEN -PLAYER_VELOCITY
                            ELSE IF isMovingRight THEN PLAYER_VELOCITY
                            ELSE 0
    /\ UNCHANGED <<likes, dislikes, selectorVars, timerVars, likedItemPool,
                   dislikedItemPool, sprites, itemName, texture,
                   positionX, bodyEnabled,
                   likedItemsGroup, dislikedItemsGroup, sessionVars, ops,
                   poolOps, utilVars,
                   outerVars>>

\* A frame with the full-size viewport and no input.
Frame == update(WIDTH, HEIGHT, FALSE, FALSE, FALSE, 0)

Next ==
    \/ StartGame
    \/ LikedSpawnTimerFires
    \/ DislikedSpawnTimerFires
    \/ PlayerOverlapsLiked
    \/ PlayerHitsDisliked
    \/ ItemReachesPlatform
    \/ GameTimerFires
    \/ Frame

Spec == Init /\ [][Next]_vars

(***************************************************************************)
(* Teardown.  shutdown() is a method of the scene class; Phaser calls      *)
(* init, preload, create and update on a scene and announces a shutdown or *)
(* a destruction on scene.events, where the scene registers no listener.   *)
(***************************************************************************)
\* ItemPool.destroy(): every sprite destroyed, both arrays replaced by [].
DestroyPool(p) == [p EXCEPT !.pool = <<>>, !.active = <<>>]

\* this.likedItemPool?.destroy()
OptDestroy(p) == IF p.exists THEN DestroyPool(p) ELSE p

\* The method shutdown(); no call site and no event registration exists.
shutdown ==
    /\ likedItemPool' = OptDestroy(likedItemPool)
    /\ dislikedItemPool' = OptDestroy(dislikedItemPool)
    /\ collectedLikedItems' = <<>>
    /\ collectedDislikedItems' = <<>>

\* What the engine does to a scene it stops or destroys: the clock drops its
\* timer events and the physics world its bodies.
SystemsShutdown(status) ==
    /\ sceneStatus' = status
    /\ clock' = [i \in 1..Len(clock) |-> [clock[i] EXCEPT !.pending = FALSE]]
    /\ bodyEnabled' = {}
    /\ UNCHANGED <<likes, dislikes, selectorVars, likedItemPool, dislikedItemPool,
                   sprites, itemName, texture,
                   positionX, likedItemsGroup, dislikedItemsGroup,
                   gameTimer, likedItemSpawnTimer, dislikedItemSpawnTimer,
                   sessionVars, frameVars, ops, poolOps, utilVars, hostVars,
                   dbVars, wizardVars>>

\* The scene manager carries out the scene.start("GameOver") that changeScene
\* queued: the RudolphGame scene is shut down.
SceneStopped ==
    /\ sceneStatus = "RUNNING"
    /\ sceneStarted = "GameOver"
    /\ SystemsShutdown("SHUTDOWN")

\* The host unmounts: game.destroy(true) destroys every scene, whatever the
\* state of the session.
GameDestroyed ==
    /\ sceneStatus # "DESTROYED"
    /\ SystemsShutdown("DESTROYED")

\* The scene receives timer events, collisions, frames and commands while it
\* runs.
SceneRuns == sceneStatus = "RUNNING" /\ ops < MaxTeardownOps

NextTeardown ==
    \/ SceneRuns /\ StartGame
    \/ SceneRuns /\ LikedSpawnTimerFires
    \/ SceneRuns /\ DislikedSpawnTimerFires
    \/ SceneRuns /\ PlayerOverlapsLiked
    \/ SceneRuns /\ PlayerHitsDisliked
    \/ SceneRuns /\ ItemReachesPlatform
    \/ SceneRuns /\ GameTimerFires
    \/ SceneRuns /\ Frame
    \/ SceneStopped
    \/ GameDestroyed

SpecTeardown == Init /\ [][NextTeardown]_vars

(***************************************************************************)
(* The PhaserGame component: the layout effect that creates and destroys   *)
(* the Phaser.Game, and the subscription effect with its cleanup.  A       *)
(* handler is recorded with its emitter, its event name and the props its  *)
(* closure captured.                                                       *)
(***************************************************************************)
\* Props the parent can render the component with: the identity of the
\* currentActiveScene callback, the game code and the player's name.
PropsSets ==
    [currentActiveScene : {1, 2}, gameId : {"aB3x9Km2Qp"},
     playerName : {"Sarah", "Tom"}]

GameEvents == <<"update-itemList", "update-dislikes", "game-over">>

\* The two emitters: the process-wide EventBus and the events of game k.
EventBus == <<"EventBus", 0>>
GameEmitter(game) == <<"game.events", game>>

Handler(emitter, name, captured) ==
    [emitter |-> emitter, name |-> name, gameId |-> captured.gameId,
     playerName |-> captured.playerName]

\* The body of the subscription effect: EventBus.on, then three
\* game.current?.events.on.
Subscribe(hs, game, captured) ==
    Append(hs, Handler(EventBus, "current-scene-ready", captured))
        \o (IF game = 0 THEN <<>>
            ELSE [k \in 1..Len(GameEvents) |->
                     Handler(GameEmitter(game), GameEvents[k], captured)])

\* removeListener(name) without a function removes every handler of the name.
RemoveListener(hs, emitter, name) ==
    SelectSeq(hs, LAMBDA h : ~(h.emitter = emitter /\ h.name = name))

\* The cleanup of the subscription effect.
Cleanup(hs, game) ==
    LET bus == RemoveListener(hs, EventBus, "current-scene-ready") IN
    IF game = 0 THEN bus ELSE RemoveListener(bus, GameEmitter(game), "game-over")

\* game.destroy(true): the game's emitter loses all its listeners.
GameDestroy(hs, game) == SelectSeq(hs, LAMBDA h : h.emitter # GameEmitter(game))

\* The dependency array [currentActiveScene, ref]; ref is the parent's useRef.
Deps(rendered) == <<rendered.currentActiveScene>>

hostFrame ==
    UNCHANGED <<likes, dislikes, selectorVars, timerVars, likedItemPool,
                dislikedItemPool, sprites, itemName, texture,
                positionX, bodyEnabled,
                likedItemsGroup, dislikedItemsGroup, sessionVars, frameVars,
                ops, poolOps, utilVars, sceneStatus, dbVars, wizardVars>>

\* First render: the layout effect creates the game, the subscription effect
\* runs.
MountWith(rendered) ==
    /\ ~mounted
    /\ renders < MaxRenders
    /\ props' = rendered
    /\ gameCurrent' = renders + 1
    /\ handlers' = Subscribe(handlers, gameCurrent', rendered)
    /\ deps' = Deps(rendered)
    /\ mounted' = TRUE
    /\ renders' = renders + 1
    /\ hostFrame

Mount == \E rendered \in PropsSets : MountWith(rendered)

\* A later render: the subscription effect is cleaned up and run again when a
\* dependency changed.
RenderWith(rendered) ==
    /\ mounted
    /\ renders < MaxRenders
    /\ props' = rendered
    /\ IF Deps(rendered) # deps
       THEN /\ handlers' = Subscribe(Cleanup(handlers, gameCurrent),
                                     gameCurrent, rendered)
            /\ deps' = Deps(rendered)
       ELSE UNCHANGED <<handlers, deps>>
    /\ renders' = renders + 1
    /\ UNCHANGED <<mounted, gameCurrent>>
    /\ hostFrame

Render == \E rendered \in PropsSets : RenderWith(rendered)

\* Unmount: the layout cleanup destroys the game and sets game.current to
\* null, then the cleanup of the subscription effect runs.
Unmount ==
    /\ mounted
    /\ mounted' = FALSE
    /\ gameCurrent' = 0
    /\ handlers' = Cleanup(GameDestroy(handlers, gameCurrent), gameCurrent')
    /\ UNCHANGED <<props, deps, renders>>
    /\ hostFrame

NextHost ==
    \/ Mount
    \/ Render
    \/ Unmount

SpecHost == Init /\ [][NextHost]_vars

(***************************************************************************)
(* The selectors alone: one startGame, then spawn ticks only.              *)
(***************************************************************************)
SelStartGame ==
    /\ clock = <<>>
    /\ \E l \in SelLikeLists, d \in SelDislikeLists : startGame(l, d)

SelLikedSpawnTimerFires ==
    /\ Len(likedDraws) < MaxSelDraws
    /\ \E i \in Pending("spawnLikedItem"), random \in SceneRandoms :
        /\ spawnLikedItem(random)
        /\ clock' = Dispatched(clock, i)
        /\ UNCHANGED <<gameTimer, likedItemSpawnTimer, dislikedItemSpawnTimer>>

SelDislikedSpawnTimerFires ==
    /\ Len(dislikedDraws) < MaxSelDraws
    /\ \E i \in Pending("spawnDislikedItem"), random \in SceneRandoms :
        /\ spawnDislikedItem(random)
        /\ clock' = Dispatched(clock, i)
        /\ UNCHANGED <<gameTimer, likedItemSpawnTimer, dislikedItemSpawnTimer>>

NextSelector ==
    \/ SelStartGame
    \/ SelLikedSpawnTimerFires
    \/ SelDislikedSpawnTimerFires

SpecSelector == Init /\ [][NextSelector]_vars

(***************************************************************************)
(* An ItemPool alone: new ItemPool(scene, poolSize), then any sequence of  *)
(* acquire and release calls, release also of sprites that are not active  *)
(* (sprite 0 is a sprite the pool never constructed).                      *)
(***************************************************************************)
InitPool ==
    /\ \E poolSize \in PoolSizes :
        /\ likedItemPool = NewItemPool(0, poolSize)
        /\ sprites = poolSize
        /\ itemName = [i \in 1..poolSize |-> Undefined]
        /\ texture = [i \in 1..poolSize |-> PLACEHOLDER]
        /\ positionX = [i \in 1..poolSize |-> 0]
    /\ InitRest

PoolAcquire ==
    /\ poolOps < MaxPoolOps
    /\ likedItemPool' = AcquirePool(likedItemPool, sprites)
    /\ sprites' = AcquireCreated(likedItemPool, sprites)
    /\ itemName' = SetItemName(itemName, sprites',
                               AcquiredItem(likedItemPool, sprites), "ring")
    /\ texture' = SetTexture(texture, sprites',
                             AcquiredItem(likedItemPool, sprites), "ring")
    /\ positionX' = SetPosition(positionX, sprites',
                                 AcquiredItem(likedItemPool, sprites), 10)
    /\ bodyEnabled' = bodyEnabled \cup {AcquiredItem(likedItemPool, sprites)}
    /\ poolOps' = poolOps + 1
    /\ UNCHANGED <<likes, dislikes, selectorVars, timerVars, dislikedItemPool,
                   likedItemsGroup, dislikedItemsGroup, sessionVars, frameVars,
                   ops, utilVars,
                   outerVars>>

PoolRelease ==
    /\ poolOps < MaxPoolOps
    /\ \E item \in 0..sprites :
        /\ likedItemPool' = ReleasePool(likedItemPool, item)
        /\ bodyEnabled' = bodyEnabled \ {item}
    /\ poolOps' = poolOps + 1
    /\ UNCHANGED <<likes, dislikes, selectorVars, timerVars, dislikedItemPool,
                   sprites, itemName, texture,
                   positionX, likedItemsGroup, dislikedItemsGroup,
                   sessionVars, frameVars, ops, utilVars,
                   outerVars>>

NextPool ==
    \/ PoolAcquire
    \/ PoolRelease

SpecPool == InitPool /\ [][NextPool]_vars

(***************************************************************************)
(* shuffleArray alone.  arrays holds the JavaScript arrays by reference     *)
(* (reference r is arrays[r]); reference 1 is the caller's array.           *)
(***************************************************************************)
MaxShuffleLen == 3

\* Elements of the arrays explored: item keys and undefined.
ShuffleElems == {"ring", "tree", "bike", Undefined}

ShuffleInputs ==
    UNION {[1..n -> ShuffleElems] : n \in 0..MaxShuffleLen}

\* const shuffled = array: the caller's array itself, no copy
SpreadAlias(heap, ref) == [arrays |-> heap, ref |-> ref]

\* const shuffled = [...array]: a new array with the same elements.
SpreadCopy(heap, ref) == [arrays |-> Append(heap, heap[ref]), ref |-> Len(heap) + 1]

InitShuffle ==
    /\ likedItemPool = NoPool
    /\ sprites = 0
    /\ itemName = <<>> /\ texture = <<>> /\ positionX = <<>>
    /\ InitFields /\ InitSecureIntIdle /\ InitHashIdle /\ InitOuterIdle
    /\ \E input \in ShuffleInputs : arrays = <<input>>
    /\ shuffledRef = 0

\* shuffleArray(array) with array the reference 1.
ShuffleArray ==
    /\ shuffledRef = 0
    /\ \E rnd \in RandomDraws(Len(arrays[1])) :
        LET copy == SpreadCopy(arrays, 1) IN
        /\ arrays' = [copy.arrays EXCEPT
                         ![copy.ref] = shuffleArray(copy.arrays[copy.ref], rnd)]
        /\ shuffledRef' = copy.ref
    /\ UNCHANGED <<likes, dislikes, selectorVars, timerVars, likedItemPool,
                   dislikedItemPool, sprites, itemName, texture,
                   positionX, bodyEnabled,
                   likedItemsGroup, dislikedItemsGroup, sessionVars, frameVars,
                   ops, poolOps, secureIntVars, hashVars,
                   outerVars>>

NextShuffle == ShuffleArray

SpecShuffle == InitShuffle /\ [][NextShuffle]_vars

(***************************************************************************)
(* generateSecureRandomInt(min, max) alone.  One action is one iteration of *)
(* its do-while loop: bytesNeeded random bytes are drawn and reduced to     *)
(* randomValue, which is returned as min + randomValue % range unless it is *)
(* rejected.                                                                *)
(***************************************************************************)
MaxIntDraws == 2

\* Arguments explored: a single value, small, negative and zero-spanning
\* ranges, ranges of 62 and 256 values, and a range of 257 values (two bytes).
IntRanges ==
    {<<42, 42>>, <<1, 6>>, <<-3, -1>>, <<-2, 2>>, <<0, 61>>, <<0, 255>>,
     <<-128, 128>>}

\* 256 ** n
RECURSIVE Pow256(_)
Pow256(n) == IF n = 0 THEN 1 ELSE 256 * Pow256(n - 1)

\* max - min + 1
IntRange(lo, hi) == hi - lo + 1

\* Math.ceil(Math.log2(range) / 8): the least b with 256 ** b >= range.
RECURSIVE LeastBytes(_, _)
LeastBytes(range, b) == IF Pow256(b) >= range THEN b ELSE LeastBytes(range, b + 1)

BytesNeeded(range) == LeastBytes(range, 0)

\* every raw value accepted, none rejected
MaxValidAll(range) == Pow256(BytesNeeded(range))

\* every raw value rejected, none accepted
MaxValidNone(range) == 0

\* 256 ** bytesNeeded - (256 ** bytesNeeded % range)
MaxValid(range) ==
    Pow256(BytesNeeded(range)) - (Pow256(BytesNeeded(range)) % range)

\* randomBytes.reduce((acc, byte, i) => acc + byte * 256 ** i, 0)
RECURSIVE ReduceBytes(_)
ReduceBytes(randomBytes) ==
    IF randomBytes = <<>> THEN 0
    ELSE ReduceBytes(SubSeq(randomBytes, 1, Len(randomBytes) - 1))
             + randomBytes[Len(randomBytes)] * Pow256(Len(randomBytes) - 1)

\* the offset min left out of the value returned
IntResultNoMin(lo, value, range) == value % range

\* min + (randomValue % range)
IntResult(lo, value, range) == lo + (value % range)

InitSecureInt ==
    /\ likedItemPool = NoPool
    /\ sprites = 0
    /\ itemName = <<>> /\ texture = <<>> /\ positionX = <<>>
    /\ InitFields /\ InitShuffleIdle /\ InitHashIdle /\ InitOuterIdle
    /\ \E args \in IntRanges : min = args[1] /\ max = args[2]
    /\ randomValue = 0
    /\ randomInt = <<>>
    /\ intDraws = 0

\* One iteration of the do-while loop with bytes drawn from byteValues, and
\* the return when it ends the loop; drawn is the number of iterations so far.
SecureIntIteration(byteValues, drawn) ==
    /\ randomInt = <<>>
    /\ LET range == IntRange(min, max)
           bytesNeeded == BytesNeeded(range)
           maxValid == MaxValid(range)
       IN  \E randomBytes \in [1..bytesNeeded -> byteValues] :
               /\ randomValue' = ReduceBytes(randomBytes)
               /\ randomInt' = IF randomValue' >= maxValid THEN <<>>
                                ELSE <<IntResult(min, randomValue', range)>>
    /\ intDraws' = drawn
    /\ UNCHANGED <<likes, dislikes, selectorVars, timerVars, likedItemPool,
                   dislikedItemPool, sprites, itemName, texture,
                   positionX, bodyEnabled,
                   likedItemsGroup, dislikedItemsGroup, sessionVars, frameVars,
                   ops, poolOps, shuffleVars, hashVars, min, max,
                   outerVars>>

SecureIntDraw ==
    /\ intDraws < MaxIntDraws
    /\ SecureIntIteration(0..255, intDraws + 1)

NextSecureInt == SecureIntDraw

SpecSecureInt == InitSecureInt /\ [][NextSecureInt]_vars

(***************************************************************************)
(* generateUniqueHash(length) alone.  One action is a call of               *)
(* crypto.getRandomValues at the head of the while loop, another is one     *)
(* iteration of the for loop over the batch; a byte of the batch gets its   *)
(* value when the loop reads it.                                            *)
(***************************************************************************)
MaxBatches == 2

\* Values of the parameter length explored.
HashLengths == {0, 1, 2}

chars ==
    <<"A", "B", "C", "D", "E", "F", "G", "H", "I", "J", "K", "L", "M",
      "N", "O", "P", "Q", "R", "S", "T", "U", "V", "W", "X", "Y", "Z",
      "a", "b", "c", "d", "e", "f", "g", "h", "i", "j", "k", "l", "m",
      "n", "o", "p", "q", "r", "s", "t", "u", "v", "w", "x", "y", "z",
      "0", "1", "2", "3", "4", "5", "6", "7", "8", "9">>

charsLength == Len(chars)

\* every byte accepted, none rejected
HashMaxValidAll == Pow256(1)

\* 256 - (256 % charsLength)
HashMaxValid == 256 - (256 % charsLength)

\* a for loop that runs to the end of the batch
ForLoopToEnd(i, bytesLength, resultLength, len) == i < bytesLength

\* i < randomBytes.length && result.length < length
ForLoopContinues(i, bytesLength, resultLength, len) ==
    i < bytesLength /\ resultLength < len

\* The for loop over the current batch is running.
InForLoop ==
    batches > 0 /\ ForLoopContinues(byteIndex, length * 2, Len(result), length)

\* The while loop has ended: return result.
HashReturned == ~InForLoop /\ ~(Len(result) < length)

InitHash ==
    /\ likedItemPool = NoPool
    /\ sprites = 0
    /\ itemName = <<>> /\ texture = <<>> /\ positionX = <<>>
    /\ InitFields /\ InitShuffleIdle /\ InitSecureIntIdle /\ InitOuterIdle
    /\ length \in HashLengths
    /\ result = <<>>
    /\ byteIndex = 0
    /\ batches = 0

\* while (result.length < length) { crypto.getRandomValues(randomBytes); i = 0
\* drawn is the number of batches so far.
HashBatch(drawn) ==
    /\ ~InForLoop
    /\ Len(result) < length
    /\ batches' = drawn
    /\ byteIndex' = 0
    /\ UNCHANGED <<likes, dislikes, selectorVars, timerVars, likedItemPool,
                   dislikedItemPool, sprites, itemName, texture,
                   positionX, bodyEnabled,
                   likedItemsGroup, dislikedItemsGroup, sessionVars, frameVars,
                   ops, poolOps, shuffleVars, secureIntVars, length, result,
                   outerVars>>

HashGetRandomValues ==
    /\ batches < MaxBatches
    /\ HashBatch(batches + 1)

\* One iteration of the for loop, reading randomBytes[i] = byte.
HashByte(byte) ==
    /\ InForLoop
    /\ result' = IF byte < HashMaxValid
                  THEN Append(result, chars[(byte % charsLength) + 1])
                  ELSE result
    /\ byteIndex' = byteIndex + 1
    /\ UNCHANGED <<likes, dislikes, selectorVars, timerVars, likedItemPool,
                   dislikedItemPool, sprites, itemName, texture,
                   positionX, bodyEnabled,
                   likedItemsGroup, dislikedItemsGroup, sessionVars, frameVars,
                   ops, poolOps, shuffleVars, secureIntVars, length, batches,
                   outerVars>>

HashNextByte == \E byte \in 0..255 : HashByte(byte)

NextHash ==
    \/ HashGetRandomValues
    \/ HashNextByte

SpecHash == InitHash /\ [][NextHash]_vars

(***************************************************************************)
(* The Firestore boundary: validateGameCode, createGame, fetchGame,        *)
(* addGameResult and fetchGameWithResults.  A string is the sequence of    *)
(* its characters.  games holds the documents games/<gameCode>, results    *)
(* the documents games/<gameCode>/results/<id>; setDoc replaces the        *)
(* document at its path.                                                   *)
(***************************************************************************)
\* Characters in code point order, the alphanumeric ones and their neighbours.
Ascii ==
    <<" ", "-", "/", "0", "1", "2", "3", "4", "5", "6", "7", "8", "9", ":",
      "@", "A", "B", "C", "D", "E", "F", "G", "H", "I", "J", "K", "L", "M",
      "N", "O", "P", "Q", "R", "S", "T", "U", "V", "W", "X", "Y", "Z", "[",
      "_", "a", "b", "c", "d", "e", "f", "g", "h", "i", "j", "k", "l",
      "m", "n", "o", "p", "q", "r", "s", "t", "u", "v", "w", "x", "y", "z",
      "{">>

CharCode == [c \in Range(Ascii) |-> CHOOSE k \in 1..Len(Ascii) : Ascii[k] = c]

\* the range lo-hi of a character class
ClassRange(lo, hi) ==
    {c \in Range(Ascii) : CharCode[lo] <= CharCode[c] /\ CharCode[c] <= CharCode[hi]}

\* [A-Za-z0-9]
CodeClass == ClassRange("A", "Z") \cup ClassRange("a", "z") \cup ClassRange("0", "9")

InCodeClass(c) == c \in CodeClass

\* the pattern without its anchors: ten alphanumeric characters anywhere
GameCodeRegexUnanchored(gameCode) ==
    \E from \in 1..Len(gameCode) :
        /\ from + 9 <= Len(gameCode)
        /\ \A k \in from..(from + 9) : InCodeClass(gameCode[k])

\* a pattern whose class lacks the lower-case range: /^[A-Z0-9]{10}$/
GameCodeRegexNoLowerCase(gameCode) ==
    /\ Len(gameCode) = 10
    /\ \A k \in 1..Len(gameCode) :
           gameCode[k] \in ClassRange("A", "Z") \cup ClassRange("0", "9")

\* GAME_CODE_REGEX.test(gameCode) with /^[A-Za-z0-9]{10}$/
GAME_CODE_REGEX(gameCode) ==
    Len(gameCode) = 10 /\ \A k \in 1..Len(gameCode) : InCodeClass(gameCode[k])

\* validateGameCode returns (TRUE) or throws (FALSE).
validateGameCode(gameCode) == GAME_CODE_REGEX(gameCode)

\* Game codes passed to the boundary: two well-formed ones, then the empty
\* string, nine characters, eleven characters, a hyphen, a path separator.
DbCodes ==
    {<<"a", "B", "3", "x", "9", "K", "m", "2", "Q", "p">>,
     <<"Z", "z", "9", "A", "a", "0", "Z", "z", "9", "A">>,
     <<>>,
     <<"a", "B", "3", "x", "9", "K", "m", "2", "Q">>,
     <<"a", "B", "3", "x", "9", "K", "m", "2", "Q", "p", "7">>,
     <<"a", "B", "3", "x", "9", "-", "m", "2", "Q", "p">>,
     <<"a", "B", "3", "x", "/", "K", "m", "2", "Q", "p">>}

\* CreateGameData; an empty name makes a document that fetchGame rejects.
GameDatas ==
    {[name |-> "John", likes |-> <<"ring", "tree">>, dislikes |-> <<"beer">>],
     [name |-> "", likes |-> <<"ring">>, dislikes |-> <<"beer">>]}

\* Omit<GameResult, "id">
ResultDatas == [player : {"Sarah", ""}, score : {85, -5}]

\* setDoc(doc(db, "games", gameCode), data)
SetGameDoc(docs, gameCode, data) ==
    {g \in docs : g.gameCode # gameCode}
        \cup {[gameCode |-> gameCode, data |-> data]}

\* setDoc(doc(db, "games", gameCode, "results", resultId), data)
SetResultDoc(docs, gameCode, resultId, data) ==
    {r \in docs : ~(r.gameCode = gameCode /\ r.id = resultId)}
        \cup {[gameCode |-> gameCode, id |-> resultId, data |-> data]}

\* Timestamp.now().toMillis().toString()
ResultId(time) == time

\* getDocs(query(resultsRef, orderBy("score", "desc"))): the documents by
\* descending score, equal scores by descending document id.
RECURSIVE OrderByScoreDesc(_)
OrderByScoreDesc(docs) ==
    IF docs = {} THEN <<>>
    ELSE LET first == CHOOSE r \in docs :
                 \A q \in docs :
                     \/ q.data.score < r.data.score
                     \/ q.data.score = r.data.score /\ q.id <= r.id
         IN  <<[id |-> first.id, player |-> first.data.player,
                score |-> first.data.score]>>
                 \o OrderByScoreDesc(docs \ {first})

\* The part of the program outside the database and the create page.
wizardFrame ==
    UNCHANGED <<likes, dislikes, selectorVars, timerVars, likedItemPool,
                dislikedItemPool, sprites, itemName, texture,
                positionX, bodyEnabled,
                likedItemsGroup, dislikedItemsGroup, sessionVars, frameVars,
                ops, poolOps, utilVars, sceneStatus, hostVars>>

dbFrame == wizardFrame /\ UNCHANGED wizardVars

Returned(fn, gameCode, value) ==
    [fn |-> fn, gameCode |-> gameCode, outcome |-> "ok", value |-> value]

Thrown(fn, gameCode, message) ==
    [fn |-> fn, gameCode |-> gameCode, outcome |-> "error",
     value |-> <<[message |-> message]>>]

createGame(gameCode, data) ==
    /\ IF validateGameCode(gameCode)
       THEN /\ games' = SetGameDoc(games, gameCode, data)
            /\ dbWrites' = dbWrites + 1
            /\ dbCall' = Returned("createGame", gameCode,
                                    <<[gameCode |-> gameCode]>>)
       ELSE /\ dbCall' = Thrown("createGame", gameCode, "Invalid game code format")
            /\ UNCHANGED <<games, dbWrites>>
    /\ dbCalls' = dbCalls + 1
    /\ UNCHANGED <<results, now, inflight, dbReads, added>>

fetchGame(gameCode) ==
    /\ IF ~validateGameCode(gameCode)
       THEN /\ dbCall' = Thrown("fetchGame", gameCode, "Invalid game code format")
            /\ UNCHANGED dbReads
       ELSE /\ dbReads' = dbReads + 1
            /\ LET docSnap == {g \in games : g.gameCode = gameCode} IN
               IF docSnap = {}
               THEN dbCall' = Thrown("fetchGame", gameCode, "not found")
               ELSE LET data == (CHOOSE g \in docSnap : TRUE).data IN
                    IF data.name = ""
                    THEN dbCall' = Thrown("fetchGame", gameCode,
                                          "Invalid game data structure")
                    ELSE dbCall' = Returned("fetchGame", gameCode,
                                            <<[name |-> data.name,
                                               likes |-> data.likes,
                                               dislikes |-> data.dislikes,
                                               results |-> <<>>]>>)
    /\ dbCalls' = dbCalls + 1
    /\ UNCHANGED <<games, results, now, inflight, dbWrites, added>>
    /\ dbFrame

\* addGameResult up to its await: validation, the document id, the setDoc sent.
addGameResult(gameCode, data) ==
    /\ IF ~validateGameCode(gameCode)
       THEN /\ dbCall' = Thrown("addGameResult", gameCode,
                                "Invalid game code format")
            /\ UNCHANGED <<inflight, dbWrites>>
       ELSE IF data.player = ""
       THEN /\ dbCall' = Thrown("addGameResult", gameCode, "Invalid result data")
            /\ UNCHANGED <<inflight, dbWrites>>
       ELSE /\ inflight' = Append(inflight,
                                  [gameCode |-> gameCode,
                                   id |-> ResultId(now),
                                   data |-> data])
            /\ dbWrites' = dbWrites + 1
            /\ UNCHANGED dbCall
    /\ dbCalls' = dbCalls + 1
    /\ UNCHANGED <<games, results, now, dbReads, added>>
    /\ dbFrame

\* The setDoc of an addGameResult call is committed and the call resolves.
SetDocCommits ==
    /\ \E k \in 1..Len(inflight) :
        /\ results' = SetResultDoc(results, inflight[k].gameCode, inflight[k].id,
                                   inflight[k].data)
        /\ added' = Append(added, inflight[k].gameCode)
        /\ dbCall' = Returned("addGameResult", inflight[k].gameCode, <<>>)
        /\ inflight' = SubSeq(inflight, 1, k - 1)
                           \o SubSeq(inflight, k + 1, Len(inflight))
    /\ UNCHANGED <<games, now, dbReads, dbWrites, dbCalls>>
    /\ dbFrame

fetchGameWithResults(gameCode) ==
    /\ IF ~validateGameCode(gameCode)
       THEN /\ dbCall' = Thrown("fetchGameWithResults", gameCode,
                                "Invalid game code format")
            /\ UNCHANGED dbReads
       ELSE LET gameSnap == {g \in games : g.gameCode = gameCode} IN
            IF gameSnap = {}
            THEN /\ dbReads' = dbReads + 1
                 /\ dbCall' = Thrown("fetchGameWithResults", gameCode, "not found")
            ELSE LET gameData == (CHOOSE g \in gameSnap : TRUE).data IN
                 IF gameData.name = ""
                 THEN /\ dbReads' = dbReads + 1
                      /\ dbCall' = Thrown("fetchGameWithResults", gameCode,
                                          "Invalid game data structure")
                 ELSE /\ dbReads' = dbReads + 2
                      /\ dbCall' =
                             Returned("fetchGameWithResults", gameCode,
                                 <<[name |-> gameData.name,
                                    likes |-> gameData.likes,
                                    dislikes |-> gameData.dislikes,
                                    results |-> OrderByScoreDesc(
                                        {r \in results : r.gameCode = gameCode})]>>)
    /\ dbCalls' = dbCalls + 1
    /\ UNCHANGED <<games, results, now, inflight, dbWrites, added>>
    /\ dbFrame

\* The callers of the boundary.
CreateGame ==
    /\ dbCalls < MaxDbCalls
    /\ \E gameCode \in DbCodes, data \in GameDatas : createGame(gameCode, data)
    /\ dbFrame

FetchGame ==
    /\ dbCalls < MaxDbCalls
    /\ \E gameCode \in DbCodes : fetchGame(gameCode)

AddGameResult ==
    /\ dbCalls < MaxDbCalls
    /\ \E gameCode \in DbCodes, data \in ResultDatas : addGameResult(gameCode, data)

FetchGameWithResults ==
    /\ dbCalls < MaxDbCalls
    /\ \E gameCode \in DbCodes : fetchGameWithResults(gameCode)

\* A millisecond passes.
Tick ==
    /\ now < MaxNow
    /\ now' = now + 1
    /\ UNCHANGED <<games, results, inflight, dbReads, dbWrites, dbCalls, dbCall,
                   added>>
    /\ dbFrame

NextDb ==
    \/ CreateGame
    \/ FetchGame
    \/ AddGameResult
    \/ SetDocCommits
    \/ FetchGameWithResults
    \/ Tick

SpecDb == Init /\ [][NextDb]_vars

(***************************************************************************)
(* handleCreateGame of the create-game wizard: generateUniqueHash() with   *)
(* its default length, then createGame with the code.  The bytes drawn are *)
(* 25 (Z), 51 (z) and 248, the first byte that is rejected.                *)
(***************************************************************************)
CreateBytes == {25, 51, 248}

InitCreate ==
    /\ likedItemPool = NoPool
    /\ sprites = 0
    /\ itemName = <<>> /\ texture = <<>> /\ positionX = <<>>
    /\ InitFields /\ InitShuffleIdle /\ InitSecureIntIdle /\ InitOuterIdle
    /\ length = DefaultLength
    /\ result = <<>>
    /\ byteIndex = 0
    /\ batches = 0

CreateNextByte == \E byte \in CreateBytes : HashByte(byte)

\* await createGame({ gameCode: uniqueId, data: newGameData })
HandleCreateGame ==
    /\ HashReturned
    /\ dbCalls = 0
    /\ \E data \in GameDatas : createGame(result, data)
    /\ dbFrame

NextCreate ==
    \/ HashGetRandomValues
    \/ CreateNextByte
    \/ HandleCreateGame

SpecCreate == InitCreate /\ [][NextCreate]_vars

(***************************************************************************)
(* The create page: NewGame shows the wizard GameCreateSteps until gameId  *)
(* is set, then GameCreateSuccess.  One action is one event handler of the *)
(* wizard followed by its render (the effect on currentStep clears the     *)
(* error message); handleCreateGame is two actions, up to its await of     *)
(* createGame and from there on.  The lists of steps 2 and 3 are displayed *)
(* at their step only, so an item is clicked in the list that is visible.  *)
(* The user gives no input while createGame is awaited.                    *)
(***************************************************************************)
totalSteps == 4
MAX_LIKES_COUNT == 3
MAX_DISLIKES_COUNT == 3

\* Object.keys(items), the first five.
itemOptions == <<"ring", "cash", "tree", "airplane", "beer">>

\* Values typed into the name field: nothing, a space, a name.
NicknameInputs == {<<>>, <<" ">>, <<"J", "o">>}

\* Codes that generateUniqueHash() returns.
WizardCodes == {<<"a", "B", "3", "x", "9", "K", "m", "2", "Q", "p">>}

Includes(list, key) == \E k \in 1..Len(list) : list[k] = key

\* likedList.filter((key) => key !== itemKey)
FilterOut(list, itemKey) ==
    LET Keep(key) == key # itemKey IN SelectSeq(list, Keep)

\* Object.entries(itemOptions).filter(([key]) => !selected.includes(key))
Options(selected) == {key \in Range(itemOptions) : ~Includes(selected, key)}

likeOptions == Options(selectedDislikes)
dislikeOptions == Options(selectedLikes)

\* String.prototype.trim on the names explored: spaces off both ends.
RECURSIVE trim(_)
trim(name) ==
    IF name = <<>> THEN name
    ELSE IF Head(name) = " " THEN trim(Tail(name))
    ELSE IF name[Len(name)] = " " THEN trim(SubSeq(name, 1, Len(name) - 1))
    ELSE name

\* a Next click that never finds too few items selected
TooFewSelectedNever(step, likedList, dislikedList) == FALSE

\* (currentStep === 2 && selectedLikes.length < 1) ||
\* (currentStep === 3 && selectedDislikes.length < 1)
TooFewSelected(step, likedList, dislikedList) ==
    \/ step = 2 /\ Len(likedList) < 1
    \/ step = 3 /\ Len(dislikedList) < 1

\* NewGame renders GameCreateSteps.
WizardShown == newGameId = <<>>

\* handleCreateGame is at its await.
CreateAwaited == dbCalls > 0 /\ dbCall.fn = "createGame"

WizardInput == WizardShown /\ ~CreateAwaited

\* const newGameData = { name: nickname, likes, dislikes, ... }
newGameData ==
    [name |-> nickname, likes |-> selectedLikes, dislikes |-> selectedDislikes]

\* handleCreateGame up to the await: the code, localStorage.setItem, createGame.
handleCreateGame ==
    /\ \E uniqueId \in WizardCodes :
        /\ localStorage' = SetGameDoc(localStorage, uniqueId, newGameData)
        /\ createGame(uniqueId, newGameData)
    /\ UNCHANGED <<currentStep, selectedLikes, selectedDislikes, nickname,
                   errorMessage, newGameId, createdBy>>
    /\ wizardFrame

\* handleCreateGame after the await: setGameId, setCreatedBy with the nickname
\* of its closure; a rejection is logged.
CreateGameResolved ==
    /\ WizardShown
    /\ CreateAwaited
    /\ IF dbCall.outcome = "ok"
       THEN /\ newGameId' = dbCall.gameCode
            /\ createdBy' = (CHOOSE g \in localStorage :
                                 g.gameCode = dbCall.gameCode).data.name
       ELSE UNCHANGED <<newGameId, createdBy>>
    /\ dbCall' = [dbCall EXCEPT !.fn = ""]
    /\ UNCHANGED <<currentStep, selectedLikes, selectedDislikes, nickname,
                   errorMessage, localStorage, games, results, now, inflight,
                   dbReads, dbWrites, dbCalls, added>>
    /\ wizardFrame

wizardOnly ==
    /\ UNCHANGED <<localStorage, newGameId, createdBy, dbVars>>
    /\ wizardFrame

\* onChange of the name field, displayed at step 1.
handleChangeInput ==
    /\ WizardInput
    /\ currentStep = 1
    /\ \E value \in NicknameInputs : value # nickname /\ nickname' = value
    /\ UNCHANGED <<currentStep, selectedLikes, selectedDislikes, errorMessage>>
    /\ wizardOnly

\* onBlur of the name field: setNickname(sanitizeNickname(nickname)); the names
\* explored hold letters and spaces only.
NicknameBlur ==
    /\ WizardInput
    /\ currentStep = 1
    /\ nickname' = trim(nickname)
    /\ nickname' # nickname
    /\ UNCHANGED <<currentStep, selectedLikes, selectedDislikes, errorMessage>>
    /\ wizardOnly

\* The Back button, disabled at step 1.
handlePrevClick ==
    /\ WizardInput
    /\ ~(currentStep <= 1)
    /\ currentStep' = currentStep - 1
    /\ errorMessage' = ""
    /\ UNCHANGED <<selectedLikes, selectedDislikes, nickname>>
    /\ wizardOnly

\* The Next button, Create game at the last step.
handleNextClick ==
    /\ WizardInput
    /\ IF currentStep = totalSteps
       THEN handleCreateGame
       ELSE /\ IF currentStep = 1 /\ Len(trim(nickname)) < 1
               THEN /\ errorMessage' = "Please enter a nickname. (At least 1 character)"
                    /\ UNCHANGED currentStep
               ELSE IF TooFewSelected(currentStep, selectedLikes, selectedDislikes)
               THEN /\ errorMessage' = "Select at least 1 item"
                    /\ UNCHANGED currentStep
               ELSE /\ currentStep' = currentStep + 1
                    /\ errorMessage' = ""
            /\ UNCHANGED <<selectedLikes, selectedDislikes, nickname>>
            /\ wizardOnly

\* A click on an item of the list displayed.
handleItemClick(itemKey) ==
    /\ IF currentStep = 2
       THEN /\ IF Includes(selectedLikes, itemKey)
               THEN /\ selectedLikes' = FilterOut(selectedLikes, itemKey)
                    /\ UNCHANGED errorMessage
               ELSE IF MAX_LIKES_COUNT = Len(selectedLikes)
               THEN /\ errorMessage' = "You can select up to 3 items."
                    /\ UNCHANGED selectedLikes
               ELSE /\ selectedLikes' = Append(selectedLikes, itemKey)
                    /\ UNCHANGED errorMessage
            /\ UNCHANGED selectedDislikes
       ELSE IF currentStep = 3
       THEN /\ IF Includes(selectedDislikes, itemKey)
               THEN /\ selectedDislikes' = FilterOut(selectedDislikes, itemKey)
                    /\ UNCHANGED errorMessage
               ELSE IF MAX_DISLIKES_COUNT = Len(selectedDislikes)
               THEN /\ errorMessage' = "You can select up to 3 items."
                    /\ UNCHANGED selectedDislikes
               ELSE /\ selectedDislikes' = Append(selectedDislikes, itemKey)
                    /\ UNCHANGED errorMessage
            /\ UNCHANGED selectedLikes
       ELSE UNCHANGED <<selectedLikes, selectedDislikes, errorMessage>>
    /\ UNCHANGED <<currentStep, nickname>>
    /\ wizardOnly

ItemClick ==
    /\ WizardInput
    /\ \E itemKey \in (IF currentStep = 2 THEN likeOptions
                       ELSE IF currentStep = 3 THEN dislikeOptions
                       ELSE {}) :
        handleItemClick(itemKey)

NextWizard ==
    \/ handleChangeInput
    \/ NicknameBlur
    \/ handlePrevClick
    \/ handleNextClick
    \/ ItemClick
    \/ CreateGameResolved

SpecWizard == Init /\ [][NextWizard]_vars

(***************************************************************************)
(* Frames and spawns of one session: one startGame, then update() with any *)
(* viewport, key state and pointer, spawn ticks with any random draw, and  *)
(* the countdown.                                                          *)
(***************************************************************************)
\* Start command and spawn ticks, layout re-derivations.
MaxFrameOps == 2
MaxResizes == 2

\* scale.getViewPort(): the full size, a narrow phone, a wide window.
Viewports == {<<WIDTH, HEIGHT>>, <<320, 480>>, <<400, HEIGHT>>}

\* input.activePointer.x: the left edge, between the midpoints of the narrow
\* and of the full play area, either side of WIDTH / 2, the right part.
PointerXs == {0, 170, 182, 183, 300}

FrameStartGame == gameTimer = 0 /\ StartGame

\* leftKey.isDown, rightKey.isDown, activePointer.isDown, activePointer.x of
\* a frame: the keys alone, the pointer alone at each position, a key held
\* against the pointer.
FrameInputs ==
    {<<leftDown, rightDown, FALSE, 0>> : leftDown, rightDown \in BOOLEAN}
        \cup {<<FALSE, FALSE, TRUE, pointerX>> : pointerX \in PointerXs}
        \cup {<<TRUE, FALSE, TRUE, 300>>, <<FALSE, TRUE, TRUE, 0>>}

FrameUpdate ==
    /\ resizes < MaxResizes
    /\ \E viewport \in Viewports, input \in FrameInputs :
        update(viewport[1], viewport[2], input[1], input[2], input[3], input[4])

FrameLikedSpawnTimerFires ==
    /\ ops < MaxFrameOps
    /\ \E i \in Pending("spawnLikedItem"), random \in Randoms :
        /\ spawnLikedItem(random)
        /\ clock' = Dispatched(clock, i)
        /\ UNCHANGED <<gameTimer, likedItemSpawnTimer, dislikedItemSpawnTimer>>

FrameDislikedSpawnTimerFires ==
    /\ ops < MaxFrameOps
    /\ \E i \in Pending("spawnDislikedItem"), random \in Randoms :
        /\ spawnDislikedItem(random)
        /\ clock' = Dispatched(clock, i)
        /\ UNCHANGED <<gameTimer, likedItemSpawnTimer, dislikedItemSpawnTimer>>

NextFrame ==
    \/ FrameStartGame
    \/ FrameUpdate
    \/ FrameLikedSpawnTimerFires
    \/ FrameDislikedSpawnTimerFires
    \/ GameTimerFires

SpecFrame == Init /\ [][NextFrame]_vars

(***************************************************************************)
(* The App page around the PhaserGame component.  App keeps gameId and     *)
(* playerName in state and renders PhaserGame with them on every render,   *)
(* so props holds App's current state; currentActiveScene is the callback  *)
(* currentScene, memoised with no dependencies.  The scene publishes       *)
(* game-over on game.events, whose game-over handler calls addGameResult   *)
(* up to its await.                                                        *)
(***************************************************************************)
\* useState(""), useState("Anonymous"), useCallback(..., [])
AppFirstRender ==
    [currentActiveScene |-> 1, gameId |-> <<>>, playerName |-> "Anonymous"]

\* Game codes in the route, names typed into the name field.
RouteGameIds ==
    {<<"a", "B", "3", "x", "9", "K", "m", "2", "Q", "p">>,
     <<"Z", "z", "9", "A", "a", "0", "Z", "z", "9", "A">>}
TypedNames == {"Sarah", "Tom"}

\* Payloads of game-over: { score: this.score }, a number.
GameOverPayloads == {[score |-> 85], [score |-> -5]}

AppMount == MountWith(AppFirstRender)

\* The effect on router.query.gameId: setGameId, then a render.
AppSetGameId ==
    /\ mounted
    /\ \E id \in RouteGameIds :
        id # props.gameId /\ RenderWith([props EXCEPT !.gameId = id])

\* onChange of the name field: setPlayerName, then a render.
AppSetPlayerName ==
    /\ mounted
    /\ \E name \in TypedNames :
        name # props.playerName
            /\ RenderWith([props EXCEPT !.playerName = name])

\* newResult of the game-over handler: gameId and playerName of its closure.
GameOverArguments(h) == [gameCode |-> h.gameId, player |-> h.playerName]

\* game.events.emit("game-over", data) reaching the handler of the component.
onGameOver(h, data) ==
    LET newResult == GameOverArguments(h) IN
    addGameResult(newResult.gameCode,
                  [player |-> newResult.player, score |-> data.score])

GameOverPublished ==
    /\ mounted
    /\ dbCalls < MaxDbCalls
    /\ \E k \in 1..Len(handlers), data \in GameOverPayloads :
        /\ handlers[k].emitter = GameEmitter(gameCurrent)
        /\ handlers[k].name = "game-over"
        /\ onGameOver(handlers[k], data)

NextApp ==
    \/ AppMount
    \/ AppSetGameId
    \/ AppSetPlayerName
    \/ Unmount
    \/ GameOverPublished

SpecApp == Init /\ [][NextApp]_vars

(***************************************************************************)
(* The two rejection loops under a fair entropy source: one call of        *)
(* generateSecureRandomInt and one call of generateUniqueHash, each running *)
(* its loop for as long as it takes.  The loops are not bounded here, the  *)
(* counters of iterations and batches stop at their bounds.  The program   *)
(* keeps running a loop that has not ended, and the entropy source yields  *)
(* an accepted value again and again while it is asked.                    *)
(***************************************************************************)
\* Byte values drawn: the least, the last of the alphabet (61), the greatest
\* accepted by generateUniqueHash (247), and two that it rejects.
EntropyBytes == {0, 61, 247, 248, 255}

InitEntropy ==
    /\ likedItemPool = NoPool
    /\ sprites = 0
    /\ itemName = <<>> /\ texture = <<>> /\ positionX = <<>>
    /\ InitFields /\ InitShuffleIdle /\ InitOuterIdle
    /\ \E args \in IntRanges : min = args[1] /\ max = args[2]
    /\ randomValue = 0
    /\ randomInt = <<>>
    /\ intDraws = 0
    /\ length \in HashLengths
    /\ result = <<>>
    /\ byteIndex = 0
    /\ batches = 0

EntropyCount(n, bound) == IF n < bound THEN n + 1 ELSE bound

EntropyIntDraw == SecureIntIteration(EntropyBytes, EntropyCount(intDraws, MaxIntDraws))

\* An iteration whose raw value is accepted.
EntropyIntAccepted == EntropyIntDraw /\ randomInt' # <<>>

EntropyHashBatch == HashBatch(EntropyCount(batches, MaxBatches))

EntropyHashByte == \E byte \in EntropyBytes : HashByte(byte)

\* An iteration of the for loop whose byte is accepted.
EntropyHashAccepted ==
    \E byte \in EntropyBytes : byte < HashMaxValid /\ HashByte(byte)

NextEntropy ==
    \/ EntropyIntDraw
    \/ EntropyHashBatch
    \/ EntropyHashByte

SpecEntropy ==
    /\ InitEntropy
    /\ [][NextEntropy]_vars
    /\ WF_vars(EntropyIntDraw)
    /\ SF_vars(EntropyIntAccepted)
    /\ WF_vars(EntropyHashBatch)
    /\ WF_vars(EntropyHashByte)
    /\ SF_vars(EntropyHashAccepted)

(***************************************************************************)
(* A session under a fair clock.  Every countdown event has the delay      *)
(* PLAY_TIME, so the countdown events expire in the order startGame added  *)
(* them; events that expire in the same frame are dispatched in one pass   *)
(* of the clock, before the scene change that handleGameOver requested is  *)
(* carried out.  The host gives start commands until the game is over.     *)
(* The clock is fair to the countdown: an event that stays pending is      *)
(* eventually dispatched.                                                  *)
(***************************************************************************)
LiveStartGame == ~gameOver /\ StartGame

\* The clock dispatches the oldest pending countdown event.
CountdownExpires ==
    \E i \in Pending("handleGameOver") :
        /\ \A k \in Pending("handleGameOver") : i <= k
        /\ handleGameOver(i)

NextLive ==
    \/ LiveStartGame
    \/ LikedSpawnTimerFires
    \/ DislikedSpawnTimerFires
    \/ PlayerOverlapsLiked
    \/ PlayerHitsDisliked
    \/ ItemReachesPlatform
    \/ CountdownExpires
    \/ Frame

SpecLive == Init /\ [][NextLive]_vars /\ WF_vars(CountdownExpires)

(***************************************************************************)
(* Properties.                                                             *)
(***************************************************************************)
Min(a, b) == IF a < b THEN a ELSE b

Last(s) == s[Len(s)]

\* The distinct elements of s in order of first occurrence.
RECURSIVE FirstOccurrences(_)
FirstOccurrences(s) ==
    IF s = <<>> THEN <<>>
    ELSE LET front == FirstOccurrences(SubSeq(s, 1, Len(s) - 1)) IN
         IF Last(s) \in Range(front) THEN front ELSE Append(front, Last(s))

\* The events of one name, in order of publication.
Published(eventName) == SelectSeq(emitted, LAMBDA e : e.name = eventName)

PoolTotal(p) == Len(p.pool) + Len(p.active)

\* C1: after any sequence of acquire and release calls on an ItemPool, releases
\* of sprites that are not active included, every sprite the pool constructed
\* is in exactly one of the free list and the active list, exactly once.
C1_PoolMembership ==
    \A e \in 1..sprites :
        Count(likedItemPool.pool, e) + Count(likedItemPool.active, e) = 1

\* A pool that grew, whose only acquired sprite is back in the free list, after
\* a release that found its sprite not in the active list.
C1_Witness ==
    /\ poolOps = 3
    /\ sprites > likedItemPool.size
    /\ likedItemPool.active = <<>>
    /\ \E e \in Range(likedItemPool.pool) : itemName[e] # Undefined

\* C2: the score is always 10 x (liked catches) - 5 x (disliked hits), from 0,
\* and the score in the game-over payload and in the registry is that running
\* total at the moment the countdown timer fires.
C2_ScoreAccounting ==
    /\ [](score = 10 * Len(likedCaught) - 5 * Len(dislikedCaught))
    /\ [][GameTimerFires =>
            /\ Len(emitted') = Len(emitted) + 1
            /\ Last(emitted').name = "game-over"
            /\ Last(emitted').payload.score =
                   10 * Len(likedCaught) - 5 * Len(dislikedCaught)
            /\ registry' = <<10 * Len(likedCaught) - 5 * Len(dislikedCaught)>>]_vars

\* Game over after one liked catch and one disliked hit.
C2_Witness ==
    /\ gameOver
    /\ Len(likedCaught) = 1 /\ Len(dislikedCaught) = 1
    /\ registry = <<5>>
    /\ Published("game-over") = <<[name |-> "game-over", payload |-> [score |-> 5]]>>

\* The session state: Idle until startGame arms the countdown, Running until
\* the gameOver flag is set.
Phase ==
    IF gameOver THEN "GameOver" ELSE IF gameTimer # 0 THEN "Running" ELSE "Idle"

\* C3: the session state only moves Idle -> Running, by startGame, and
\* Running -> GameOver, by the expiry of the countdown timer; once gameOver is
\* set no operation clears it.
C3_PhaseTransitions ==
    [][/\ Phase = "Idle" /\ Phase' # "Idle" => Phase' = "Running" /\ StartGame
       /\ Phase = "Running" /\ Phase' # "Running" =>
              Phase' = "GameOver" /\ GameTimerFires
       /\ gameOver => gameOver']_vars

\* startGame was called again after game over and the flag is still set.
C3_Witness ==
    /\ gameOver
    /\ clock[gameTimer].pending
    /\ lastViewportWidth = WIDTH

\* C4: after the countdown timer fires, the countdown timer and both spawn
\* timers are no longer pending (no spawn callback and no second game-over
\* callback runs afterwards).
C4_NoTimerPendingAfterGameOver ==
    gameOver => \A i \in 1..Len(clock) : ~clock[i].pending

\* Blocks of n draws that start at a cycle boundary: no key repeats in a block,
\* and a complete block holds every key exactly once.
BlocksExhaust(draws, keys) ==
    LET n == Len(keys) IN
    \A k \in 0..(Len(draws) \div n) :
        LET block == SubSeq(draws, k * n + 1, Min(Len(draws), (k + 1) * n)) IN
        /\ Range(block) \subseteq Range(keys)
        /\ \A key \in Range(keys) : Count(block, key) <= 1
        /\ Len(block) = n => \A key \in Range(keys) : Count(block, key) = 1

\* C5: for a selector seeded by startGame with n >= 1 distinct keys, the first
\* n draws return each key exactly once before any key repeats, and so does
\* every later block of n draws that starts at a cycle boundary.
C5_BlocksExhaust ==
    /\ Len(likes) >= 1 => BlocksExhaust(likedDraws, likes)
    /\ Len(dislikes) >= 1 => BlocksExhaust(dislikedDraws, dislikes)

\* Two complete cycles over two keys, the second in the other order.
C5_Witness ==
    /\ likes = <<"ring", "tree">>
    /\ likedDraws = <<"ring", "tree", "tree", "ring">>
    /\ Len(dislikedDraws) = 4

\* Every window of n successive draws holds every key exactly once.
AnyWindowExhausts(draws, keys) ==
    LET n == Len(keys) IN
    \A start \in 1..(Len(draws) - n + 1) :
        \A key \in Range(keys) :
            Count(SubSeq(draws, start, start + n - 1), key) = 1

\* C6: over any n consecutive draws, aligned to a cycle boundary or not and
\* across reshuffles, every key appears exactly once.
C6_AnyWindowExhausts ==
    /\ Len(likes) >= 1 => AnyWindowExhausts(likedDraws, likes)
    /\ Len(dislikes) >= 1 => AnyWindowExhausts(dislikedDraws, dislikes)

\* In a window of n successive draws a key appears at most twice, and exactly
\* once when the window starts at a cycle boundary.
WindowsBounded(draws, keys) ==
    LET n == Len(keys) IN
    \A start \in 1..(Len(draws) - n + 1) :
        \A key \in Range(keys) :
            LET c == Count(SubSeq(draws, start, start + n - 1), key) IN
            /\ c <= 2
            /\ (start - 1) % n = 0 => c = 1

\* C6 as amended: over any n consecutive draws every key appears at most
\* twice, and exactly once when the window starts at a cycle boundary; a
\* window that straddles a reshuffle can hold a key twice and miss another.
C6_WindowsBounded ==
    /\ Len(likes) >= 1 => WindowsBounded(likedDraws, likes)
    /\ Len(dislikes) >= 1 => WindowsBounded(dislikedDraws, dislikes)

\* A window that straddles the reshuffle holds the same key twice.
C6_Witness ==
    /\ Len(likes) = 3
    /\ Len(likedDraws) = 4
    /\ likedDraws[3] = likedDraws[4]

\* C7: startGame with an empty likes or dislikes list is rejected: no timer is
\* armed, no pool is created and the session stays Idle.
C7_EmptyConfigRejected ==
    [][\A config \in Configs :
          (config.likes = <<>> \/ config.dislikes = <<>>)
          /\ startGame(config.likes, config.dislikes)
          => UNCHANGED <<timerVars, likedItemPool, dislikedItemPool, sprites>>]_vars

\* C8: acquire always returns an entity, a new one when the free list is
\* empty, and free.size + active.size is never below the initial capacity
\* (20 in the scene) and never decreases.
C8_PoolNeverShrinks ==
    /\ [](PoolTotal(likedItemPool) >= likedItemPool.size)
    /\ [][/\ PoolTotal(likedItemPool') >= PoolTotal(likedItemPool)
          /\ PoolAcquire =>
                /\ Len(likedItemPool'.active) = Len(likedItemPool.active) + 1
                /\ Last(likedItemPool'.active) \in 1..sprites'
                /\ Last(likedItemPool'.active) \in bodyEnabled']_vars

\* A pool that has grown beyond its initial capacity, every sprite active.
C8_Witness ==
    /\ sprites > likedItemPool.size
    /\ likedItemPool.pool = <<>>
    /\ Len(likedItemPool.active) = likedItemPool.size + 2

\* C9: acquire never returns a sprite that is in the active list at the time
\* of the call: it is taken from the free list or newly constructed.
C9_AcquireNotActive ==
    [][PoolAcquire =>
          LET item == Last(likedItemPool'.active) IN
          /\ item \notin Range(likedItemPool.active)
          /\ \/ item \in Range(likedItemPool.pool)
             \/ item = sprites + 1 /\ sprites' = sprites + 1]_vars

\* acquire was called with a sprite active and a released sprite in the free list.
C9_Witness ==
    /\ Len(likedItemPool.active) >= 2
    /\ \E e \in Range(likedItemPool.pool) : itemName[e] # Undefined

\* C10: every catch publishes exactly one update event of its category, whose
\* payload is the list of distinct item keys caught so far in that category in
\* order of first catch.
C10_UpdatePayloads ==
    /\ Len(Published("update-itemList")) = Len(likedCaught)
    /\ \A k \in 1..Len(likedCaught) :
           Published("update-itemList")[k].payload =
               FirstOccurrences(SubSeq(likedCaught, 1, k))
    /\ Len(Published("update-dislikes")) = Len(dislikedCaught)
    /\ \A k \in 1..Len(dislikedCaught) :
           Published("update-dislikes")[k].payload =
               FirstOccurrences(SubSeq(dislikedCaught, 1, k))

\* ring then tree caught, then ring again: three update-itemList events.
C10_Witness ==
    Published("update-itemList") =
        <<[name |-> "update-itemList", payload |-> <<"ring">>],
          [name |-> "update-itemList", payload |-> <<"ring", "tree">>],
          [name |-> "update-itemList", payload |-> <<"ring", "tree">>]>>

\* C11: when a falling sprite of either category hits the platform it is
\* released to the pool of its own category (moved from the active list to the
\* free list) and nothing else changes: the score, both collected sets and
\* both selectors are unchanged and no event is published.
C11_GroundLossOnlyReleases ==
    [][\A sprite \in (likedItemsGroup \cup dislikedItemsGroup) \cap bodyEnabled :
          itemHitsPlatform(sprite) =>
              /\ IF sprite \in likedItemsGroup
                 THEN /\ sprite \in Range(likedItemPool'.pool)
                      /\ sprite \notin Range(likedItemPool'.active)
                      /\ UNCHANGED dislikedItemPool
                 ELSE /\ sprite \in Range(dislikedItemPool'.pool)
                      /\ sprite \notin Range(dislikedItemPool'.active)
                      /\ UNCHANGED likedItemPool
              /\ UNCHANGED <<score, collectedLikedItems, collectedDislikedItems,
                             shuffledLikedItems, shuffledDislikedItems,
                             likedItemIndex, dislikedItemIndex, emitted>>]_vars

\* No two successive draws of a selector over n >= 2 keys return the same key.
NoImmediateRepeat(draws, keys) ==
    Len(keys) >= 2 => \A k \in 1..(Len(draws) - 1) : draws[k] # draws[k + 1]

NoRepeatWithinCycle(draws, keys) ==
    Len(keys) >= 2 =>
        \A k \in 1..(Len(draws) - 1) :
            k % Len(keys) # 0 => draws[k] # draws[k + 1]

C19_GameOverOrder ==
    /\ Len(gameOverSeen) = Len(Published("game-over"))
    /\ \A k \in 1..Len(gameOverSeen) :
           /\ gameOverSeen[k].gameOver
           /\ gameOverSeen[k].timers = {}
           /\ gameOverSeen[k].registry =
                  <<Published("game-over")[k].payload.score>>
    /\ gameOverSeen # <<>> =>
           /\ gameOverSeen[1].sceneStarted = "RudolphGame"
           /\ sceneStarted = "GameOver"

\* game-over was published with a score of 10 while a spawn timer had been
\* pending until the handler ran.
C19_Witness ==
    /\ Len(gameOverSeen) = 1
    /\ gameOverSeen[1].registry = <<10>>
    /\ Len(likedDraws) >= 1
    /\ sceneStarted = "GameOver"

\* C20: when the countdown timer fires, pooled entities are flushed: after
\* game over neither pool has a sprite left in its active list.
C20_ActiveFlushedAtGameOver ==
    gameOver => likedItemPool.active = <<>> /\ dislikedItemPool.active = <<>>

\* C12: for every input sequence, empty and singleton included, and every
\* choice of random indices, shuffleArray returns a new sequence with the
\* length and the multiset of elements of the input, and leaves the input
\* sequence unchanged.
C12_ShuffleIsPermutation ==
    [][ShuffleArray =>
          /\ shuffledRef' # 1
          /\ arrays'[1] = arrays[1]
          /\ Len(arrays'[shuffledRef']) = Len(arrays[1])
          /\ \A e \in ShuffleElems :
                 Count(arrays'[shuffledRef'], e) = Count(arrays[1], e)]_vars

\* A three-element input returned in another order, the input as it was.
C12_Witness ==
    /\ shuffledRef = 2
    /\ arrays[1] = <<"ring", "tree", "ring">>
    /\ arrays[2] = <<"ring", "ring", "tree">>

Distinct(s) == \A i, j \in 1..Len(s) : i # j => s[i] # s[j]

\* The rearrangements of s.
Rearrangements(s) ==
    {q \in [1..Len(s) -> Range(s)] : \A e \in Range(s) : Count(q, e) = Count(s, e)}

RECURSIVE Factorial(_)
Factorial(n) == IF n <= 1 THEN 1 ELSE n * Factorial(n - 1)

C14_SecureIntInRange ==
    randomInt # <<>> =>
        /\ randomInt[1] \in min..max
        /\ min = max => randomInt[1] = min

\* The maximum of a zero-spanning range of 257 values, built from two bytes.
C14_Witness ==
    /\ min = -128 /\ max = 128
    /\ randomValue > 255
    /\ randomInt = <<128>>

\* C15: generateSecureRandomInt has no modulo bias: a raw value >= maxValid is
\* always rejected and redrawn, and the accepted raw values 0 <= v < maxValid
\* map onto [min, max] with the same number of preimages, maxValid / range,
\* for every integer of the range.
C15_SecureIntUnbiased ==
    LET range == IntRange(min, max) IN
    /\ (intDraws > 0 /\ randomValue >= MaxValid(range)) => randomInt = <<>>
    /\ randomInt # <<>> =>
           /\ randomValue < MaxValid(range)
           /\ randomInt[1] = min + (randomValue % range)
    /\ intDraws = 0 =>
           /\ MaxValid(range) % range = 0
           /\ \A r \in min..max :
                  Cardinality({v \in 0..(MaxValid(range) - 1) :
                                  IntResult(min, v, range) = r})
                      = MaxValid(range) \div range

\* A first raw value rejected (252..255 for a range of 6), the second accepted.
C15_Witness ==
    /\ min = 1 /\ max = 6
    /\ intDraws = 2
    /\ randomInt = <<6>>

\* The 62 symbols A-Z, a-z, 0-9.
Alphanumeric ==
    {"A", "B", "C", "D", "E", "F", "G", "H", "I", "J", "K", "L", "M", "N", "O",
     "P", "Q", "R", "S", "T", "U", "V", "W", "X", "Y", "Z"}
    \cup {"a", "b", "c", "d", "e", "f", "g", "h", "i", "j", "k", "l", "m", "n",
          "o", "p", "q", "r", "s", "t", "u", "v", "w", "x", "y", "z"}
    \cup {"0", "1", "2", "3", "4", "5", "6", "7", "8", "9"}

\* C16: for every length >= 0 and every stream of random bytes,
\* generateUniqueHash returns a string of exactly that length whose characters
\* all belong to the 62-symbol alphabet, batches of bytes being re-drawn until
\* enough characters have been accepted.
C16_HashLengthAndAlphabet ==
    /\ Len(result) <= length
    /\ \A k \in 1..Len(result) : result[k] \in Alphanumeric
    /\ HashReturned => Len(result) = length
    /\ (~InForLoop /\ Len(result) < length /\ batches < MaxBatches)
           => ENABLED HashGetRandomValues

\* A one-character code returned from the second batch, the two bytes of the
\* first batch having been rejected.
C16_Witness ==
    /\ length = 1
    /\ batches = 2
    /\ HashReturned
    /\ result = <<"9">>

\* C17: every drawn byte >= 248 is discarded and contributes no character, an
\* accepted byte 0..247 contributes one character, and each of the 62 symbols
\* is produced by exactly 4 byte values.
C17_HashUnbiased ==
    /\ [](batches = 0 =>
            /\ Cardinality(Range(chars)) = 62
            /\ \A symbol \in Range(chars) :
                   Cardinality({byte \in 0..255 :
                                   /\ byte < HashMaxValid
                                   /\ chars[(byte % charsLength) + 1] = symbol}) = 4)
    /\ [][\A byte \in 0..255 :
              HashByte(byte) =>
                  IF byte >= 248 THEN result' = result
                  ELSE Len(result') = Len(result) + 1]_vars

\* A two-character code whose first batch had a rejected byte between the two
\* accepted ones.
C17_Witness ==
    /\ length = 2
    /\ batches = 1
    /\ byteIndex = 3
    /\ Len(result) = 2

TimerCallbacks == {"handleGameOver", "spawnLikedItem", "spawnDislikedItem"}

\* C26: whatever the sequence of startGame calls, timer firings, collisions
\* and frames, at most one countdown timer and at most one spawn timer of each
\* category is pending, none is pending after game over, and no spawn callback
\* runs after game over.
C26_AtMostOneTimerPending ==
    /\ [](/\ \A cb \in TimerCallbacks : Cardinality(Pending(cb)) <= 1
          /\ gameOver => \A cb \in TimerCallbacks : Pending(cb) = {})
    /\ [][gameOver => ~(LikedSpawnTimerFires \/ DislikedSpawnTimerFires)]_vars

\* C27: once game-over has been published, the score and both collected sets
\* do not change and no update-itemList or update-dislikes event is published,
\* whatever collision callbacks are still delivered.
C27_FrozenAfterGameOver ==
    [][Published("game-over") # <<>> =>
          /\ score' = score
          /\ collectedLikedItems' = collectedLikedItems
          /\ collectedDislikedItems' = collectedDislikedItems
          /\ Len(Published("update-itemList")') = Len(Published("update-itemList"))
          /\ Len(Published("update-dislikes")') = Len(Published("update-dislikes"))]_vars

\* One draw of a selector over a non-empty permutation: the key returned is
\* the element at the cursor before the advance, the cursor advances modulo
\* the length, and the permutation is kept unless the cursor wrapped to 0, in
\* which case it is a shuffle of itself.
DrawStep(shuffled, index, draws, shuffledNext, indexNext, drawsNext) ==
    /\ drawsNext = Append(draws, shuffled[index + 1])
    /\ indexNext = (index + 1) % Len(shuffled)
    /\ indexNext \in 0..(Len(shuffledNext) - 1)
    /\ IF indexNext = 0
       THEN shuffledNext \in ShuffleResults(shuffled)
       ELSE shuffledNext = shuffled

\* C28: for a non-empty key list the cursor of each selector is within
\* [0, length) after every draw and wraps to 0 once per n draws; the
\* permutation is replaced by a shuffle exactly on the draw that wraps the
\* cursor, before the next read; a draw returns the element at the cursor
\* before the advance.
C28_CursorAndReshuffle ==
    /\ [](/\ Len(likes) > 0 =>
                /\ likedItemIndex \in 0..(Len(shuffledLikedItems) - 1)
                /\ likedItemIndex = Len(likedDraws) % Len(likes)
          /\ Len(dislikes) > 0 =>
                /\ dislikedItemIndex \in 0..(Len(shuffledDislikedItems) - 1)
                /\ dislikedItemIndex = Len(dislikedDraws) % Len(dislikes))
    /\ [][/\ SelLikedSpawnTimerFires =>
                 DrawStep(shuffledLikedItems, likedItemIndex, likedDraws,
                          shuffledLikedItems', likedItemIndex', likedDraws')
          /\ SelDislikedSpawnTimerFires =>
                 DrawStep(shuffledDislikedItems, dislikedItemIndex, dislikedDraws,
                          shuffledDislikedItems', dislikedItemIndex',
                          dislikedDraws')]_vars

\* The cursor is back at 0 after a full cycle over three keys that ended with
\* bike, and the reshuffle put another key first.
C28_Witness ==
    /\ Len(likes) = 3
    /\ Len(likedDraws) = 3
    /\ likedDraws[3] = "bike"
    /\ likedItemIndex = 0
    /\ shuffledLikedItems[1] # likedDraws[1]

\* C29: throughout a session the permutation of each selector is a
\* rearrangement of the key list given to startGame, whatever the number of
\* reshuffles, every key handed out belongs to the configured list of its
\* category, and the caller's likes and dislikes arrays are never changed
\* (they are the arrays of the latest startGame call, which arms three timers).
C29_PermutationOfConfigured ==
    /\ [](/\ shuffledLikedItems \in Rearrangements(likes)
          /\ shuffledDislikedItems \in Rearrangements(dislikes)
          /\ Range(likedDraws) \subseteq Range(likes)
          /\ Range(dislikedDraws) \subseteq Range(dislikes))
    /\ [][Len(clock') = Len(clock) => likes' = likes /\ dislikes' = dislikes]_vars

\* C30: release of a sprite that is not in the active list (released before,
\* or never acquired from this pool) leaves the free list and the active list
\* as they are; a second release of a sprite changes nothing after the first
\* and the sprite is never in the free list twice.
C30_ReleaseGuarded ==
    /\ [](\A item \in 0..sprites :
            LET once == ReleasePool(likedItemPool, item) IN
            /\ item \notin Range(likedItemPool.active) => once = likedItemPool
            /\ ReleasePool(once, item) = once
            /\ Count(once.pool, item) <= 1)
    /\ [][PoolRelease =>
            \/ likedItemPool' = likedItemPool
            \/ /\ Len(likedItemPool'.active) = Len(likedItemPool.active) - 1
               /\ Len(likedItemPool'.pool) = Len(likedItemPool.pool) + 1
               /\ Last(likedItemPool'.pool) \in Range(likedItemPool.active)
               /\ Last(likedItemPool'.pool) \notin Range(likedItemPool'.active)]_vars

\* A pool of two after acquire, release and one more release that found its
\* sprite not active: both sprites are free, each once.
C30_Witness ==
    /\ poolOps = 3
    /\ likedItemPool.size = 2
    /\ sprites = 2
    /\ itemName[2] = "ring"
    /\ ~(2 \in bodyEnabled)
    /\ likedItemPool.pool = <<1, 2>>
    /\ likedItemPool.active = <<>>

\* C21: once the scene has been stopped or destroyed, after a natural game
\* over, while Running or before startGame, both pools have an empty free list
\* and an empty active list and both collected sets are empty.
C21_TeardownEmptiesPools ==
    sceneStatus # "RUNNING" =>
        /\ likedItemPool.pool = <<>> /\ likedItemPool.active = <<>>
        /\ dislikedItemPool.pool = <<>> /\ dislikedItemPool.active = <<>>
        /\ collectedLikedItems = <<>>
        /\ collectedDislikedItems = <<>>

\* The handlers of one event name that the component has registered.
HandlersOf(name) == SelectSeq(handlers, LAMBDA h : h.name = name)

\* C22: the cleanup of the subscription effect removes every event name the
\* effect subscribed: after any number of runs of the effect each of
\* current-scene-ready, update-itemList, update-dislikes and game-over has at
\* most one handler of the component, and none once it is unmounted.
C22_AtMostOneHandlerPerEvent ==
    /\ \A name \in {"current-scene-ready"} \cup Range(GameEvents) :
           Len(HandlersOf(name)) <= 1
    /\ ~mounted => handlers = <<>>

\* A string of exactly ten characters, each a letter or a digit.
TenAlphanumeric(gameCode) ==
    Len(gameCode) = 10 /\ Range(gameCode) \subseteq Alphanumeric

InvalidDbCodes == {gameCode \in DbCodes : ~TenAlphanumeric(gameCode)}

\* The call threw for gameCode and left the database alone.
Rejected(gameCode) ==
    /\ dbCall'.outcome = "error"
    /\ dbCall'.gameCode = gameCode
    /\ UNCHANGED <<games, results, inflight, dbReads, dbWrites>>

\* C23: createGame, fetchGame, addGameResult and fetchGameWithResults, given
\* a game code that is not ten alphanumeric characters, fail with an error and
\* make no database read or write: the stored documents are unchanged.
C23_InvalidCodeRejected ==
    [][\A gameCode \in InvalidDbCodes :
          /\ (\E data \in GameDatas : createGame(gameCode, data) /\ dbFrame)
                 => Rejected(gameCode)
          /\ fetchGame(gameCode) => Rejected(gameCode)
          /\ (\E data \in ResultDatas : addGameResult(gameCode, data))
                 => Rejected(gameCode)
          /\ fetchGameWithResults(gameCode) => Rejected(gameCode)]_vars

\* A game and a result are stored, and the last call, an addGameResult with a
\* code of eleven characters, threw.
C23_Witness ==
    /\ dbCalls = 3
    /\ dbCall.fn = "addGameResult"
    /\ dbCall.outcome = "error"
    /\ Len(dbCall.gameCode) = 11
    /\ Cardinality(games) = 1
    /\ Cardinality(results) = 1
    /\ dbWrites = 2

\* C24: every addGameResult call that succeeded appended a record of its own:
\* after k successful calls for a game code, in any interleaving and also
\* within one millisecond, the results of the code hold k records, none
\* overwritten.
C24_EveryResultAppended ==
    \A gameCode \in DbCodes :
        Cardinality({r \in results : r.gameCode = gameCode})
            = Count(added, gameCode)

\* The code of ten characters all made from one byte.
CodeOfByte(byte) == [k \in 1..DefaultLength |-> chars[(byte % charsLength) + 1]]

\* C25: every code that generateUniqueHash() returns with its default length
\* is accepted by validateGameCode, so createGame does not reject a freshly
\* generated code for its format: each accepted byte yields a character of the
\* pattern's class, the code returned has the pattern's length, and the
\* createGame call of handleCreateGame stores the game under it.
C25_GeneratedCodeAccepted ==
    /\ [](/\ batches = 0 =>
                \A byte \in 0..255 :
                    byte < HashMaxValid => validateGameCode(CodeOfByte(byte))
          /\ HashReturned => validateGameCode(result))
    /\ [][HandleCreateGame =>
              /\ dbCall'.outcome = "ok"
              /\ dbWrites' = dbWrites + 1
              /\ \E g \in games' : g.gameCode = result]_vars

\* A game stored under a generated code with an upper-case and a lower-case
\* letter, after a first batch in which bytes were rejected.
C25_Witness ==
    /\ dbCall.fn = "createGame"
    /\ dbCall.outcome = "ok"
    /\ \E g \in games : g.gameCode = result
    /\ Len(result) = 10
    /\ "Z" \in Range(result) /\ "z" \in Range(result)
    /\ batches = 2

Max(a, b) == IF a > b THEN a ELSE b

\* C31: after its constructor an ItemPool constructs a sprite only when acquire
\* finds the free list empty; free.size + active.size is the number of sprites
\* constructed and equals max(poolSize, largest number of sprites active at
\* once so far), poolSize being 20 in the scene: it starts at poolSize and
\* each call leaves it at the larger of its old value and the new active
\* count; an acquire that finds a free sprite hands out that sprite.
C31_PoolSizeIsPeak ==
    /\ [](/\ PoolTotal(likedItemPool) = sprites
          /\ poolOps = 0 => PoolTotal(likedItemPool) = likedItemPool.size
          /\ PoolTotal(likedItemPool) >= likedItemPool.size)
    /\ [][/\ PoolTotal(likedItemPool') =
                 Max(PoolTotal(likedItemPool), Len(likedItemPool'.active))
          /\ sprites' # sprites =>
                 /\ PoolAcquire
                 /\ likedItemPool.pool = <<>>
                 /\ sprites' = sprites + 1
          /\ (PoolAcquire /\ likedItemPool.pool # <<>>) =>
                 /\ sprites' = sprites
                 /\ Last(likedItemPool'.active) = Last(likedItemPool.pool)]_vars

\* A pool of two grew to three sprites on the third acquire; sprite 2 was then
\* released and handed out again without a construction.
C31_Witness ==
    /\ likedItemPool.size = 2
    /\ poolOps = 5
    /\ sprites = 3
    /\ likedItemPool.pool = <<>>
    /\ likedItemPool.active = <<1, 3, 2>>

\* One spawn tick of a category: one more key drawn, one more sprite in the
\* active list of the category's pool, configured with the key drawn as its
\* texture and its item name and a member of the category's group; the item
\* names of the other sprites are untouched.
SpawnStep(draws, drawsNext, p, pNext, group) ==
    /\ Len(drawsNext) = Len(draws) + 1
    /\ Len(pNext.active) = Len(p.active) + 1
    /\ PoolTotal(pNext) - PoolTotal(p) = sprites' - sprites
    /\ LET sprite == Last(pNext.active) IN
       /\ sprite \notin Range(p.active)
       /\ texture'[sprite] = Last(drawsNext)
       /\ itemName'[sprite] = Last(drawsNext)
       /\ sprite \in group
       /\ \A e \in (1..sprites) \ {sprite} : itemName'[e] = itemName[e]

\* C32: every firing of the liked (disliked) spawn timer draws one key from the
\* selector of its category and moves one sprite into the active list of the
\* pool of its category, with the key drawn as texture and as item name, and
\* adds it to the group of its category; an item name is written by a spawn
\* only, and a catch records the item name its sprite holds, so the key
\* recorded is the key of the latest spawn of that sprite.
C32_SpawnTick ==
    [][/\ LikedSpawnTimerFires =>
              /\ SpawnStep(likedDraws, likedDraws', likedItemPool, likedItemPool',
                           likedItemsGroup')
              /\ UNCHANGED <<dislikedDraws, dislikedItemPool, dislikedItemsGroup>>
       /\ DislikedSpawnTimerFires =>
              /\ SpawnStep(dislikedDraws, dislikedDraws', dislikedItemPool,
                           dislikedItemPool', dislikedItemsGroup')
              /\ UNCHANGED <<likedDraws, likedItemPool, likedItemsGroup>>
       /\ ~(LikedSpawnTimerFires \/ DislikedSpawnTimerFires) =>
              \A e \in 1..sprites : itemName'[e] = itemName[e]
       /\ \A sprite \in likedItemsGroup \cap bodyEnabled :
              collectLikedItem(sprite) =>
                  likedCaught' = Append(likedCaught, itemName[sprite])
       /\ \A sprite \in dislikedItemsGroup \cap bodyEnabled :
              hitDislikedItem(sprite) =>
                  dislikedCaught' = Append(dislikedCaught, itemName[sprite])]_vars

\* Two liked spawns and one disliked spawn; the first liked sprite was caught
\* under the key it was spawned with, the second is falling with the second
\* key as texture and item name.
C32_Witness ==
    /\ Len(likedDraws) = 2
    /\ Len(dislikedDraws) = 1
    /\ likedCaught = <<likedDraws[1]>>
    /\ likedDraws[1] # likedDraws[2]
    /\ \E sprite \in likedItemsGroup \cap bodyEnabled :
           /\ texture[sprite] = likedDraws[2]
           /\ itemName[sprite] = likedDraws[2]
           /\ positionX[sprite] \in 10..(WIDTH - 10)
    /\ \E sprite \in dislikedItemsGroup \cap bodyEnabled :
           texture[sprite] = dislikedDraws[1]

\* The sprites a pool holds, free or active.
PoolSprites(p) == Range(p.pool) \cup Range(p.active)

\* The pool, the selector and the collected set of a category.
likedCategory ==
    <<likedItemPool, shuffledLikedItems, likedItemIndex, collectedLikedItems>>
dislikedCategory ==
    <<dislikedItemPool, shuffledDislikedItems, dislikedItemIndex,
      collectedDislikedItems>>

\* A sprite that existed before the step and is new in the free list of p was
\* in the active list of p.
ReleasedFromOwnActive(p, pNext) ==
    \A e \in (Range(pNext.pool) \ Range(p.pool)) \cap (1..sprites) :
        e \in Range(p.active)

\* C33: the two categories are independent: a spawn, a catch and a ground loss
\* of a liked sprite leave the disliked pool (free and active list), the
\* disliked selector (permutation and cursor) and the collected-disliked set
\* unchanged, and symmetrically; a sprite enters the free list of the pool it
\* was acquired from only: the pools never share a sprite, a sprite of one
\* category is never held by the pool of the other, and a release moves a
\* sprite to the free list of the pool whose active list held it.
C33_CategoriesIndependent ==
    /\ [](/\ PoolSprites(likedItemPool) \cap PoolSprites(dislikedItemPool) = {}
          /\ likedItemsGroup \cap dislikedItemsGroup = {}
          /\ PoolSprites(likedItemPool) \cap dislikedItemsGroup = {}
          /\ PoolSprites(dislikedItemPool) \cap likedItemsGroup = {})
    /\ [][/\ LikedSpawnTimerFires => UNCHANGED dislikedCategory
          /\ PlayerOverlapsLiked => UNCHANGED dislikedCategory
          /\ \A sprite \in likedItemsGroup \cap bodyEnabled :
                 itemHitsPlatform(sprite) => UNCHANGED dislikedCategory
          /\ DislikedSpawnTimerFires => UNCHANGED likedCategory
          /\ PlayerHitsDisliked => UNCHANGED likedCategory
          /\ \A sprite \in dislikedItemsGroup \cap bodyEnabled :
                 itemHitsPlatform(sprite) => UNCHANGED likedCategory
          /\ ReleasedFromOwnActive(likedItemPool, likedItemPool')
          /\ ReleasedFromOwnActive(dislikedItemPool, dislikedItemPool')]_vars

\* Two liked sprites were spawned, one was caught and the other lost on the
\* ground, while a disliked sprite was falling: the disliked category is as
\* its own spawn left it.
C33_Witness ==
    /\ Len(likedDraws) = 2
    /\ Len(likedCaught) = 1
    /\ likedItemPool.active = <<>>
    /\ Len(likedItemPool.pool) = POOL_SIZE
    /\ Len(dislikedDraws) = 1
    /\ Len(dislikedItemPool.active) = 1
    /\ dislikedItemIndex = 1 % Len(dislikes)
    /\ collectedDislikedItems = <<>>

\* C34: once startGame has armed the countdown the session eventually reaches
\* GameOver, whatever spawn ticks, collisions and frames come first, under a
\* clock that eventually dispatches the countdown; and game-over is published
\* exactly once: never before the game is over, once when it is.
C34_GameOverExactlyOnce ==
    /\ (gameTimer # 0) ~> gameOver
    /\ [](Len(Published("game-over")) = IF gameOver THEN 1 ELSE 0)

\* C35: when game-over is published with a numeric score, the host appends one
\* result under the game code and the player name that are current at that
\* moment, those of App's latest render (the gameId taken from the route, the
\* name typed), not under the values its handler captured when it was
\* registered: one setDoc is sent for games/<gameId> with player playerName
\* and the score published.
C35_ResultUnderCurrentValues ==
    [][\A k \in 1..Len(handlers), data \in GameOverPayloads :
          (/\ mounted
           /\ props.gameId \in RouteGameIds
           /\ handlers[k].emitter = GameEmitter(gameCurrent)
           /\ handlers[k].name = "game-over"
           /\ onGameOver(handlers[k], data))
          => /\ Len(inflight') = Len(inflight) + 1
             /\ Last(inflight').gameCode = props.gameId
             /\ Last(inflight').data =
                    [player |-> props.playerName, score |-> data.score]]_vars

\* The layout that update() derives from the viewport.
layout == <<gameWidth, playerY, resizes>>

\* C36: update() re-derives the layout only when the viewport width or height
\* differs from the values remembered at the previous update(); after every
\* update() that runs while the game is not over the remembered values are the
\* viewport of that update, so an update with the viewport of the update
\* before it re-derives nothing; once gameOver is set neither the layout nor
\* the remembered values change.
C36_LayoutOnViewportChange ==
    [][/\ \A viewport \in Viewports, input \in FrameInputs :
              update(viewport[1], viewport[2], input[1], input[2], input[3],
                     input[4]) =>
                  /\ ~gameOver =>
                         /\ lastViewportWidth' = viewport[1]
                         /\ lastViewportHeight' = viewport[2]
                  /\ (viewport[1] = lastViewportWidth
                          /\ viewport[2] = lastViewportHeight) =>
                         UNCHANGED layout
                  /\ resizes' \in {resizes, resizes + 1}
       /\ layout' # layout => ~gameOver /\ FrameUpdate
       /\ gameOver => UNCHANGED <<layout, lastViewportWidth, lastViewportHeight>>]_vars

\* The viewport narrowed twice, to the same size each time after a frame at
\* the full size; between them and afterwards frames with an unchanged
\* viewport re-derived nothing; the game is over with the narrow layout.
C36_Witness ==
    /\ gameOver
    /\ resizes = 2
    /\ lastViewportWidth = 320 /\ lastViewportHeight = 480
    /\ gameWidth = 320
    /\ playerY = 480 - PLAYER_RESIZE_Y_OFFSET

\* C37: while Running with no arrow key down and the pointer down at x,
\* update() moves the player left when x is below the horizontal midpoint of
\* the play area as that update leaves it (half the current game width, also
\* after the viewport narrowed it below WIDTH), and right when x is at or
\* above that midpoint.
C37_PointerMidpointOfPlayArea ==
    [][\A viewport \in Viewports, pointerX \in PointerXs :
          (/\ gameTimer # 0
           /\ ~gameOver
           /\ update(viewport[1], viewport[2], FALSE, FALSE, TRUE, pointerX))
          => playerVelocityX' = IF 2 * pointerX < gameWidth'
                                THEN -PLAYER_VELOCITY
                                ELSE PLAYER_VELOCITY]_vars

\* The sprite that the spawn of a step put in the active list of pool pNext
\* lies within the play width: within 10 .. WIDTH - 10 while the play area
\* has its full width, within the current game width once it is narrower.
SpawnedWithinPlayWidth(pNext) ==
    LET x == positionX'[Last(pNext.active)] IN
    IF gameWidth = WIDTH
    THEN x \in 10..(WIDTH - 10)
    ELSE x \in 0..gameWidth

\* C38: every spawned sprite gets an integer horizontal coordinate within the
\* play width: within [10, 355] for the full 365-wide play area and within the
\* current game width after the viewport has narrowed the play area.
C38_SpawnWithinPlayWidth ==
    [][/\ FrameLikedSpawnTimerFires => SpawnedWithinPlayWidth(likedItemPool')
       /\ FrameDislikedSpawnTimerFires =>
              SpawnedWithinPlayWidth(dislikedItemPool')]_vars

\* Ranges beyond those of the calls explored: every range of one byte and the
\* least of two, the ranges around 256 ** 2.
AcceptanceRanges == (1..300) \cup {65535, 65536, 65537}

\* The acceptance set of the rejection loop for a range: raw values below
\* maxValid, among the 256 ** bytesNeeded raw values.
AcceptanceSetLarge(range) ==
    /\ MaxValid(range) >= range
    /\ 2 * MaxValid(range) > Pow256(BytesNeeded(range))
    /\ MaxValid(range) <= Pow256(BytesNeeded(range))

\* C39: for every range >= 1 the rejection loop of generateSecureRandomInt has
\* a non-empty acceptance set: maxValid >= range, so more than half of the
\* 256 ** bytesNeeded raw values are accepted, and for range 1 the draw of no
\* bytes gives 0, accepted at once; generateUniqueHash accepts 248 of the 256
\* byte values.  Both functions return as soon as enough accepted values are
\* drawn, and both return eventually under an entropy source that keeps
\* yielding accepted values.
C39_RejectionLoopsTerminate ==
    /\ []((intDraws = 0 /\ batches = 0) =>
            /\ \A range \in AcceptanceRanges \cup {IntRange(min, max)} :
                   AcceptanceSetLarge(range)
            /\ BytesNeeded(1) = 0 /\ ReduceBytes(<<>>) < MaxValid(1)
            /\ Cardinality({byte \in 0..255 : byte < HashMaxValid}) = 248)
    /\ [][/\ EntropyIntDraw =>
                 /\ randomValue' < MaxValid(IntRange(min, max)) <=> randomInt' # <<>>
                 /\ min = max => randomInt' = <<min>>
          /\ \A byte \in EntropyBytes :
                 (HashByte(byte) /\ byte < HashMaxValid) =>
                     /\ Len(result') = Len(result) + 1
                     /\ Len(result') = length => HashReturned']_vars
    /\ <>(randomInt # <<>>)
    /\ <>HashReturned

\* Both loops rejected before they accepted: the integer in 1..6 came with the
\* second draw or later after a rejected one, the two-character code was
\* completed in the second batch or later, after at least two rejected bytes.
C39_Witness ==
    /\ min = 1 /\ max = 6
    /\ intDraws = MaxIntDraws
    /\ randomInt # <<>>
    /\ length = 2
    /\ batches = MaxBatches
    /\ HashReturned
    /\ Len(result) = 2

NoDuplicates(list) ==
    \A j, k \in 1..Len(list) : list[j] = list[k] => j = k

\* Between 1 and 3 liked keys and between 1 and 3 disliked keys, no key twice
\* in a list, no key in both lists.
ValidSelection(likedList, dislikedList) ==
    /\ Len(likedList) \in 1..3
    /\ Len(dislikedList) \in 1..3
    /\ NoDuplicates(likedList)
    /\ NoDuplicates(dislikedList)
    /\ Range(likedList) \cap Range(dislikedList) = {}

\* C40: for every sequence of Next, Back and item clicks of the create wizard,
\* handleCreateGame runs only with between 1 and 3 liked keys and between 1
\* and 3 disliked keys, without duplicates and with no key in both lists: the
\* selection is valid whenever the wizard is at its last step, a Next click
\* creates a game only there, and every game configuration stored, in the
\* database or in localStorage, has such lists, so neither list is empty.
C40_WizardCreatesValidGames ==
    /\ [](/\ currentStep \in 1..totalSteps
          /\ currentStep = totalSteps =>
                 ValidSelection(selectedLikes, selectedDislikes)
          /\ \A g \in games \cup localStorage :
                 /\ ValidSelection(g.data.likes, g.data.dislikes)
                 /\ g.data.likes # <<>> /\ g.data.dislikes # <<>>)
    /\ [][(games' # games \/ localStorage' # localStorage \/ dbCalls' # dbCalls) =>
              /\ handleNextClick
              /\ currentStep = totalSteps
              /\ ValidSelection(selectedLikes, selectedDislikes)
              /\ games' = SetGameDoc(games, dbCall'.gameCode, newGameData)]_vars

\* A game was created with one liked key and three disliked keys under the
\* name typed, and the success page shows its code.
C40_Witness ==
    /\ newGameId \in WizardCodes
    /\ createdBy = <<"J", "o">>
    /\ errorMessage = ""
    /\ \E g \in games :
        /\ g.gameCode = newGameId
        /\ Len(g.data.likes) = 1
        /\ Len(g.data.dislikes) = 3
        /\ g.data.name = createdBy

====
